---- MODULE Spec2Model ----
(***************************************************************************)
(* Orb field: spatial occupancy grid, orb physics phases and lifecycle.    *)
(*                                                                         *)
(* Units (fixed point; the source uses IEEE doubles):                      *)
(*   time      1 = 100 ms  (performance.now() / 100; deltaTime * 10)       *)
(*   pxX, pxY  1 = 0.1 px                                                  *)
(*   vx, vy    1 = 1 px/s      so  pxX + vx * dt  is exact                 *)
(*   z         1 = 0.001 layer                                             *)
(*   vz        1 = 0.01 layer/s so  z + vz * dt   is exact                 *)
(* Products and quotients that the source computes in floating point are   *)
(* rounded to these units where noted.                                     *)
(***************************************************************************)
EXTENDS Integers, Sequences, FiniteSets, TLC

\* ---------------------------------------------------------------- bounds

\* Cells per viewport along X / Y of the simulated field.
ViewCellsX == 2
ViewCellsY == 2
\* Depth layers of the simulated field.
FieldLayers == 2
\* Cells per viewport (both axes) and layers of the grid used for probing
\* the grid and spawn-validation functions.
ProbeViewCells == 3
ProbeLayers == 5
\* Grid extension beyond the viewport, in viewports, on every side.
ExtensionMultiplier == 1
\* Cell width / height in 0.1 px.
CellSizeXPx == 500
CellSizeYPx == 500
\* The wall clock is explored over two windows of this many ticks, one from
\* page load and one after the page has slept for SleepTicks.
MaxNow == 2
\* Most orbs alive at once.
MaxOrbs == 2
\* Most inputs (clicks, option changes, burst trigger, resizes, pointer and
\* visibility events) the page handles in a run.
MaxInputs == 2

\* ------------------------------------------------------------ arithmetic

Abs(a) == IF a < 0 THEN -a ELSE a

Sign(a) == IF a > 0 THEN 1 ELSE IF a < 0 THEN -1 ELSE 0

Min(a, b) == IF a < b THEN a ELSE b

Max(a, b) == IF a > b THEN a ELSE b

\* (a / b) | 0 : truncation toward zero, b > 0.
TruncDiv(a, b) == IF a >= 0 THEN a \div b ELSE -((-a) \div b)

\* Math.round(a / b) : nearest, ties toward +Infinity, b > 0.
RoundDiv(a, b) == (2 * a + b) \div (2 * b)

\* Math.round(a / b) for a quotient whose sign is that of a, b > 0, rounding
\* the magnitude to nearest.
RDiv(a, b) == IF a >= 0 THEN (2 * a + b) \div (2 * b) ELSE -((2 * (-a) + b) \div (2 * b))

\* floor(Math.sqrt(n)), n >= 0.
RECURSIVE ISqrt(_)
ISqrt(n) ==
    IF n < 2 THEN n
    ELSE LET lo == 2 * ISqrt(n \div 4)
         IN  IF (lo + 1) * (lo + 1) > n THEN lo ELSE lo + 1

\* 10000 * (num / den)^n by repeated squaring, rounded down at every product.
RECURSIVE PowScaled(_, _, _)
PowScaled(num, den, n) ==
    IF n <= 0 THEN 10000
    ELSE IF n % 2 = 1 THEN (PowScaled(num, den, n - 1) * num) \div den
    ELSE LET h == PowScaled(num, den, n \div 2) IN (h * h) \div 10000

\* 1000 * Math.log(n) for the orb sizes that occur.
LnMilli(n) ==
    CASE n = 1 -> 0
      [] n = 2 -> 693
      [] n = 3 -> 1099
      [] n = 4 -> 1386
      [] n = 5 -> 1609
      [] n = 6 -> 1792
      [] n = 7 -> 1946
      [] n = 8 -> 2079
      [] n = 20 -> 2996
      [] OTHER -> 2996

\* ------------------------------------------------------------ cell flags

CELL_EMPTY == 0
CELL_PROXIMITY == 1
CELL_FILLED == 2
CELL_BORDER == 4

\* hasCellFlag(state, flag): (state & flag) !== 0, flag a single bit.
hasCellFlag(state, flag) == (state \div flag) % 2 = 1

\* state | flag
WithFlag(state, flag) == IF hasCellFlag(state, flag) THEN state ELSE state + flag

\* state & ~flag
WithoutFlag(state, flag) == IF hasCellFlag(state, flag) THEN state - flag ELSE state

\* ---------------------------------------------------------- SpatialGrid

\* GridConfigFactory.create: cell counts of a grid whose viewport holds
\* vx by vy cells.
GridConfigOf(vx, vy, layers) ==
    [ cellsX |-> vx * (1 + 2 * ExtensionMultiplier),
      cellsY |-> vy * (1 + 2 * ExtensionMultiplier),
      layers |-> layers ]

\* ViewportCells of that grid: the viewport starts after the extension.
ViewportCellsOf(vx, vy) ==
    [ startCellX |-> vx * ExtensionMultiplier,
      startCellY |-> vy * ExtensionMultiplier,
      cellSizeXPx |-> CellSizeXPx,
      cellSizeYPx |-> CellSizeYPx ]

TotalCells(config) == config.cellsX * config.cellsY * config.layers

\* new SpatialGrid(config): a zeroed Uint8Array.
NewSpatialGrid(config) ==
    [ config |-> config,
      cells |-> [i \in 0 .. (TotalCells(config) - 1) |-> CELL_EMPTY] ]

getIndex(g, cellX, cellY, layer) ==
    layer * g.config.cellsX * g.config.cellsY + cellY * g.config.cellsX + cellX

isInBounds(g, cellX, cellY, layer) ==
    /\ cellX >= 0 /\ cellX < g.config.cellsX
    /\ cellY >= 0 /\ cellY < g.config.cellsY
    /\ layer >= 0 /\ layer < g.config.layers

\* Coordinates of a buffer index (inverse of getIndex inside the bounds).
CellXOf(g, i) == i % g.config.cellsX
CellYOf(g, i) == (i \div g.config.cellsX) % g.config.cellsY
LayerOf(g, i) == i \div (g.config.cellsX * g.config.cellsY)

\* A buffer read/write without the bounds guard: what the typed array does
\* with an index computed from coordinates outside the dimensions.
RawRead(g, cellX, cellY, layer) ==
    LET i == getIndex(g, cellX, cellY, layer)
    IN  IF i \in DOMAIN g.cells THEN g.cells[i] ELSE CELL_EMPTY

RawWrite(g, cellX, cellY, layer, state) ==
    LET i == getIndex(g, cellX, cellY, layer)
    IN  IF i \in DOMAIN g.cells THEN [g EXCEPT !.cells[i] = state] ELSE g

M_getCell(g, cellX, cellY, layer) == RawRead(g, cellX, cellY, layer)

getCell(g, cellX, cellY, layer) ==
    IF ~isInBounds(g, cellX, cellY, layer)
    THEN CELL_EMPTY
    ELSE g.cells[getIndex(g, cellX, cellY, layer)]

M_setCell(g, cellX, cellY, layer, state) == RawWrite(g, cellX, cellY, layer, state)

setCell(g, cellX, cellY, layer, state) ==
    IF ~isInBounds(g, cellX, cellY, layer)
    THEN g
    ELSE [g EXCEPT !.cells[getIndex(g, cellX, cellY, layer)] = state]

\* addCellFlag: bitwise OR into the cell; no-op out of bounds.
addCellFlag(g, cellX, cellY, layer, flag) ==
    setCell(g, cellX, cellY, layer, WithFlag(getCell(g, cellX, cellY, layer), flag))

\* removeCellFlag: bitwise AND-NOT; no-op out of bounds.
removeCellFlag(g, cellX, cellY, layer, flag) ==
    setCell(g, cellX, cellY, layer, WithoutFlag(getCell(g, cellX, cellY, layer), flag))

\* isWall: true only for the permanent border flag.
isWall(g, cellX, cellY, layer) == hasCellFlag(getCell(g, cellX, cellY, layer), CELL_BORDER)

\* clearDynamic: resets filled + proximity grid-wide, keeps border.
clearDynamic(g) ==
    LET cells == g.cells
    IN  [ config |-> g.config,
          cells |-> [i \in DOMAIN cells |->
                        WithoutFlag(WithoutFlag(cells[i], CELL_FILLED), CELL_PROXIMITY)] ]

IsRingCell(config, cellX, cellY) ==
    \/ cellX = 0 \/ cellX = config.cellsX - 1
    \/ cellY = 0 \/ cellY = config.cellsY - 1

\* initializeBorder: stamps the outermost ring of cells, on all layers.
initializeBorder(g) ==
    LET cells == g.cells
        config == g.config
    IN  [ config |-> config,
          cells |-> [i \in DOMAIN cells |->
                        IF IsRingCell(config, i % config.cellsX,
                                      (i \div config.cellsX) % config.cellsY)
                        THEN WithFlag(cells[i], CELL_BORDER)
                        ELSE cells[i]] ]

\* useGridInitialization: new SpatialGrid(config); initializeBorder().
FreshGrid(config) == initializeBorder(NewSpatialGrid(config))

\* ------------------------------------------------------------------ Orb

\* lifetimeMs of a manually placed orb (Infinity in the source).
INFINITE_LIFETIME == -1

\* (age > lifetimeMs), with lifetimeMs possibly Infinity.
AgeExceeds(age, lifetimeMs) == lifetimeMs # INFINITE_LIFETIME /\ age > lifetimeMs

\* Math.atan2(vy, vx), kept symbolically as the vector it was taken of.
Atan2(vy, vx) == [y |-> vy, x |-> vx]

\* Math.round(orb.z)
RoundLayer(z) == RoundDiv(z, 1000)

\* ((px * invCellSize) | 0) + startCell
CellIndex(px, cellSizePx, startCell) == TruncDiv(px, cellSizePx) + startCell

OrbCellX(orb, vpc) == CellIndex(orb.pxX, vpc.cellSizeXPx, vpc.startCellX)
OrbCellY(orb, vpc) == CellIndex(orb.pxY, vpc.cellSizeYPx, vpc.startCellY)

\* Math.floor(Math.sqrt(size) + radius + 1), radius = size - 1.
AvoidanceRadius(size) == ISqrt(size) + size

\* ------------------------------------------------------- OrbGridMarking

\* What the two passes do to a cell at squared distance distSq from the
\* centre: Op with CELL_PROXIMITY in the avoidance shell, Op with
\* CELL_FILLED in the body.
StampCell(state, distSq, radiusSq, avoidanceRadiusSq, Op(_, _)) ==
    IF distSq > radiusSq /\ distSq <= avoidanceRadiusSq
    THEN Op(state, CELL_PROXIMITY)
    ELSE IF distSq <= radiusSq THEN Op(state, CELL_FILLED) ELSE state

\* Squared distance of buffer index i from the centre cell.
IndexDistSq(i, cellsX, cellsY, centerCellX, centerCellY, centerLayer) ==
    ((i % cellsX) - centerCellX) * ((i % cellsX) - centerCellX)
    + (((i \div cellsX) % cellsY) - centerCellY) * (((i \div cellsX) % cellsY) - centerCellY)
    + ((i \div (cellsX * cellsY)) - centerLayer) * ((i \div (cellsX * cellsY)) - centerLayer)

StampCells(cells, config, centerCellX, centerCellY, centerLayer, radiusSq,
           avoidanceRadiusSq, Op(_, _)) ==
    [ config |-> config,
      cells |->
        [i \in DOMAIN cells |->
            StampCell(cells[i],
                      IndexDistSq(i, config.cellsX, config.cellsY, centerCellX, centerCellY,
                                  centerLayer),
                      radiusSq, avoidanceRadiusSq, Op)] ]

\* The two passes of markOrbCircular / clearOrbCircular over the cube of
\* offsets around the orb's centre cell, written per cell of the buffer.
StampOrb(g, orb, vpc, Op(_, _)) ==
    StampCells(g.cells, g.config, OrbCellX(orb, vpc), OrbCellY(orb, vpc), RoundLayer(orb.z),
               (orb.size - 1) * (orb.size - 1),
               AvoidanceRadius(orb.size) * AvoidanceRadius(orb.size), Op)

\* grid.setCell(..., flag) in place of grid.addCellFlag(..., flag).
Overwrite(state, flag) == flag

M_markOrbCircular(g, orb, vpc) == StampOrb(g, orb, vpc, Overwrite)

markOrbCircular(g, orb, vpc) == StampOrb(g, orb, vpc, WithFlag)

\* Clears the whole cell instead of removing one flag.
Erase(state, flag) == CELL_EMPTY

M_clearOrbCircular(g, orb, vpc) == StampOrb(g, orb, vpc, Erase)

clearOrbCircular(g, orb, vpc) == StampOrb(g, orb, vpc, WithoutFlag)

RECURSIVE MarkAllFrom(_, _, _, _)
MarkAllFrom(g, orbList, vpc, k) ==
    IF k > Len(orbList) THEN g
    ELSE MarkAllFrom(markOrbCircular(g, orbList[k], vpc), orbList, vpc, k + 1)

RECURSIVE ClearAllFrom(_, _, _, _)
ClearAllFrom(g, orbList, vpc, k) ==
    IF k > Len(orbList) THEN g
    ELSE ClearAllFrom(clearOrbCircular(g, orbList[k], vpc), orbList, vpc, k + 1)

\* Marks every orb without grid.clearDynamic() first.
M_markInitial(g, orbList, vpc) == MarkAllFrom(g, orbList, vpc, 1)

\* PhaseGridMarking.markInitial / markFinal.
markInitial(g, orbList, vpc) == MarkAllFrom(clearDynamic(g), orbList, vpc, 1)

\* ------------------------------------------------------ SpawnValidation

IsBlockingState(state) == hasCellFlag(state, CELL_FILLED) \/ hasCellFlag(state, CELL_BORDER)

\* Is any cell of the spherical footprint around the centre in a state for
\* which Bad holds?
FootprintHas(g, centerCellX, centerCellY, centerLayer, radius, Bad(_)) ==
    \E dz \in -radius .. radius : \E dy \in -radius .. radius :
    \E dx \in -radius .. radius :
        /\ dx * dx + dy * dy + dz * dz <= radius * radius
        /\ Bad(getCell(g, centerCellX + dx, centerCellY + dy, centerLayer + dz))

IsNotEmptyState(state) == state # CELL_EMPTY

\* Also blocked by the soft avoidance hint.
M_canSpawn(pxX, pxY, z, size, g, vpc) ==
    ~FootprintHas(g, CellIndex(pxX, vpc.cellSizeXPx, vpc.startCellX),
                  CellIndex(pxY, vpc.cellSizeYPx, vpc.startCellY), RoundLayer(z),
                  size - 1, IsNotEmptyState)

canSpawn(pxX, pxY, z, size, g, vpc) ==
    IF size = 1
    THEN ~IsBlockingState(getCell(g, CellIndex(pxX, vpc.cellSizeXPx, vpc.startCellX),
                                  CellIndex(pxY, vpc.cellSizeYPx, vpc.startCellY),
                                  RoundLayer(z)))
    ELSE ~FootprintHas(g, CellIndex(pxX, vpc.cellSizeXPx, vpc.startCellX),
                       CellIndex(pxY, vpc.cellSizeYPx, vpc.startCellY), RoundLayer(z),
                       size - 1, IsBlockingState)

\* -------------------------------------------------------- WallCollision

IsBorderState(state) == hasCellFlag(state, CELL_BORDER)

\* Reports every blocked axis on both X and Y.
M_CollisionResult(blockedX, blockedY, blockedZ) ==
    [ blocked |-> blockedX \/ blockedY \/ blockedZ,
      reflectX |-> blockedX \/ blockedY, reflectY |-> blockedX \/ blockedY,
      reflectZ |-> blockedZ ]

\* The CollisionResult literal checkMove returns.
CollisionResult(blockedX, blockedY, blockedZ) ==
    [ blocked |-> blockedX \/ blockedY \/ blockedZ,
      reflectX |-> blockedX, reflectY |-> blockedY, reflectZ |-> blockedZ ]

\* checkMove from the current and next cell coordinates, with Hit the
\* test applied to the state of each cell of the footprint.
CheckMoveCells(size, g, currCellX, currCellY, currLayer, nextCellX, nextCellY, nextLayer,
               Hit(_)) ==
    IF size = 1
    THEN CollisionResult(Hit(getCell(g, nextCellX, currCellY, currLayer)),
                         Hit(getCell(g, currCellX, nextCellY, currLayer)),
                         Hit(getCell(g, currCellX, currCellY, nextLayer)))
    ELSE CollisionResult(FootprintHas(g, nextCellX, currCellY, currLayer, size - 1, Hit),
                         FootprintHas(g, currCellX, nextCellY, currLayer, size - 1, Hit),
                         FootprintHas(g, currCellX, currCellY, nextLayer, size - 1, Hit))

CheckMoveWith(orb, deltaTime, g, vpc, Hit(_)) ==
    CheckMoveCells(orb.size, g, OrbCellX(orb, vpc), OrbCellY(orb, vpc), RoundLayer(orb.z),
                   CellIndex(orb.pxX + orb.vx * deltaTime, vpc.cellSizeXPx, vpc.startCellX),
                   CellIndex(orb.pxY + orb.vy * deltaTime, vpc.cellSizeYPx, vpc.startCellY),
                   RoundLayer(orb.z + orb.vz * deltaTime), Hit)

\* Bounces off any blocking cell (isBlocking), other orbs included.
M_checkMove(orb, deltaTime, g, vpc) == CheckMoveWith(orb, deltaTime, g, vpc, IsBlockingState)

checkMove(orb, deltaTime, g, vpc) == CheckMoveWith(orb, deltaTime, g, vpc, IsBorderState)

\* if (reflectX) vx = -vx; if (reflectY) vy = -vy; if (reflectZ) vz = -vz;
\* angle = atan2(vy, vx)
applyReflection(orb, reflectX, reflectY, reflectZ) ==
    [orb EXCEPT !.vx = IF reflectX THEN -orb.vx ELSE orb.vx,
                !.vy = IF reflectY THEN -orb.vy ELSE orb.vy,
                !.vz = IF reflectZ THEN -orb.vz ELSE orb.vz,
                !.angle = Atan2(IF reflectY THEN -orb.vy ELSE orb.vy,
                                IF reflectX THEN -orb.vx ELSE orb.vx)]

\* The stuck flags and push directions before any wall cell was seen.
NotStuck ==
    [ stuckX |-> FALSE, stuckY |-> FALSE, stuckZ |-> FALSE,
      pushDirX |-> 0, pushDirY |-> 0, pushDirZ |-> 0 ]

\* The scan state after the inner dx loop of row (dy, dz), whose wall
\* cells have the offsets wallDx.
ScanRow(st, wallDx, dy, dz) ==
    IF wallDx = {} THEN st
    ELSE [ stuckX |-> st.stuckX \/ wallDx # {0},
           pushDirX |-> IF wallDx # {0}
                        THEN -Sign(CHOOSE dx \in wallDx \ {0} : \A e \in wallDx \ {0} : e <= dx)
                        ELSE st.pushDirX,
           stuckY |-> st.stuckY \/ dy # 0,
           pushDirY |-> IF dy # 0 THEN -Sign(dy) ELSE st.pushDirY,
           stuckZ |-> st.stuckZ \/ dz # 0,
           pushDirZ |-> IF dz # 0 THEN -Sign(dz) ELSE st.pushDirZ ]

\* The dz and dy loops from row number row on (dz outer, dy inner), which
\* stop once all three axes are stuck.
RECURSIVE ScanStuck(_, _, _, _, _, _, _)
ScanStuck(g, centerCellX, centerCellY, centerLayer, radius, row, st) ==
    IF row >= (2 * radius + 1) * (2 * radius + 1) \/ (st.stuckX /\ st.stuckY /\ st.stuckZ)
    THEN st
    ELSE ScanStuck(g, centerCellX, centerCellY, centerLayer, radius, row + 1,
                   ScanRow(st,
                           {dx \in -radius .. radius :
                               /\ dx * dx
                                  + ((row % (2 * radius + 1)) - radius)
                                    * ((row % (2 * radius + 1)) - radius)
                                  + ((row \div (2 * radius + 1)) - radius)
                                    * ((row \div (2 * radius + 1)) - radius)
                                  <= radius * radius
                               /\ isWall(g, centerCellX + dx,
                                         centerCellY + (row % (2 * radius + 1)) - radius,
                                         centerLayer + (row \div (2 * radius + 1)) - radius)},
                           (row % (2 * radius + 1)) - radius,
                           (row \div (2 * radius + 1)) - radius))

\* The velocity component after a push along its axis.
PushedVelocity(v, stuck, pushDir) == IF stuck /\ pushDir # 0 THEN Abs(v) * pushDir ELSE v

\* The push of a stuck orb: pushDistance = 2 cells.
ApplyPush(orb, st, vpc) ==
    IF ~(st.stuckX \/ st.stuckY \/ st.stuckZ) THEN orb
    ELSE [orb EXCEPT
            !.pxX = IF st.stuckX THEN @ + st.pushDirX * 2 * vpc.cellSizeXPx ELSE @,
            !.pxY = IF st.stuckY THEN @ + st.pushDirY * 2 * vpc.cellSizeYPx ELSE @,
            !.z = IF st.stuckZ THEN @ + st.pushDirZ * 2000 ELSE @,
            !.vx = PushedVelocity(@, st.stuckX, st.pushDirX),
            !.vy = PushedVelocity(@, st.stuckY, st.pushDirY),
            !.vz = PushedVelocity(@, st.stuckZ, st.pushDirZ),
            !.angle = Atan2(PushedVelocity(orb.vy, st.stuckY, st.pushDirY),
                            PushedVelocity(orb.vx, st.stuckX, st.pushDirX))]

\* unstickFromWall; rnd = [x, y] are the signs drawn for an axis without
\* velocity (Math.random() > 0.5 ? 1 : -1).
unstickFromWall(orb, g, vpc, rnd) ==
    IF orb.size = 1
    THEN IF isWall(g, OrbCellX(orb, vpc), OrbCellY(orb, vpc), RoundLayer(orb.z))
         THEN ApplyPush(orb,
                        [ stuckX |-> TRUE, stuckY |-> TRUE, stuckZ |-> FALSE,
                          pushDirX |-> IF orb.vx # 0 THEN -Sign(orb.vx) ELSE rnd.x,
                          pushDirY |-> IF orb.vy # 0 THEN -Sign(orb.vy) ELSE rnd.y,
                          pushDirZ |-> IF orb.vz # 0 THEN -Sign(orb.vz) ELSE 0 ],
                        vpc)
         ELSE orb
    ELSE ApplyPush(orb,
                   ScanStuck(g, OrbCellX(orb, vpc), OrbCellY(orb, vpc), RoundLayer(orb.z),
                             orb.size - 1, 0, NotStuck),
                   vpc)

\* ----------------------------------------------------------- OrbMovement

\* deltaTime (in 100 ms) accepted by updatePosition / applyWander:
\* finite, > 0 and <= 1 s.
ValidDeltaTime(deltaTime) == deltaTime > 0 /\ deltaTime <= 10

updatePosition(orb, deltaTime) ==
    IF ~ValidDeltaTime(deltaTime) THEN orb
    ELSE [orb EXCEPT !.pxX = @ + orb.vx * deltaTime,
                     !.pxY = @ + orb.vy * deltaTime,
                     !.z = @ + orb.vz * deltaTime]

\* Speed-limit configuration (px/s; rate as a fraction of 100).
BaseMaxSpeed == 200
MinMaxSpeed == 50
DecelerationRatePct == 5

\* getMaxSpeed without the floor of minMaxSpeed.
M_getMaxSpeed(size, baseMaxSpeed, minMaxSpeed) ==
    ISqrt((100 * baseMaxSpeed * baseMaxSpeed) \div size)

\* getMaxSpeed, in 0.1 px/s.
getMaxSpeed(size, baseMaxSpeed, minMaxSpeed) ==
    Max(10 * minMaxSpeed, ISqrt((100 * baseMaxSpeed * baseMaxSpeed) \div size))

\* The velocity scaled from currentSpeed to newSpeed (0.1 px/s).
ScaleVelocity(orb, currentSpeed, newSpeed) ==
    [orb EXCEPT !.vx = RDiv(orb.vx * newSpeed, currentSpeed),
                !.vy = RDiv(orb.vy * newSpeed, currentSpeed),
                !.vz = RDiv(orb.vz * newSpeed, currentSpeed),
                !.speed = ISqrt(RDiv(orb.vx * newSpeed, currentSpeed)
                                * RDiv(orb.vx * newSpeed, currentSpeed)
                                + RDiv(orb.vy * newSpeed, currentSpeed)
                                  * RDiv(orb.vy * newSpeed, currentSpeed))]

\* The body of applySpeedLimit once currentSpeed, maxSpeed (0.1 px/s) and
\* smoothFactor (1/10000) are known.
LimitSpeed(orb, currentSpeed, maxSpeed, smoothFactor) ==
    IF currentSpeed = 0 THEN orb
    ELSE IF currentSpeed > maxSpeed
         THEN ScaleVelocity(orb, currentSpeed,
                            currentSpeed
                            + TruncDiv((maxSpeed - currentSpeed) * smoothFactor, 10000))
         ELSE orb

\* applySpeedLimit; speeds in 0.1 px/s, vz scaled by 20 to px/s.
applySpeedLimit(orb, baseMaxSpeed, minMaxSpeed, decelerationRatePct, deltaTime) ==
    LimitSpeed(orb,
               ISqrt(100 * (orb.vx * orb.vx + orb.vy * orb.vy) + (2 * orb.vz) * (2 * orb.vz)),
               getMaxSpeed(orb.size, baseMaxSpeed, minMaxSpeed),
               10000 - PowScaled(100 - decelerationRatePct, 100, 6 * deltaTime))

\* ---------------------------------------------------------- OrbBehaviors

\* Largest orb size of the spawn configuration used by layer attraction, and
\* of the burst configuration used when spawning.
SpawnMaxSize == 20
BurstMaxSize == 8

\* getPreferredLayer, in 0.001 layer.
getPreferredLayer(size, maxSize, totalLayers) ==
    ((totalLayers - 1) * 1000 * LnMilli(size)) \div LnMilli(maxSize)

\* Layer-attraction strength in 1/10, drift cap in 0.01 layer/s.
AttractionStrengthTenths == 5
MaxDriftSpeed == 50

applyLayerAttraction(orb, maxSize, totalLayers, strengthTenths, deltaTime) ==
    LET preferredLayer == getPreferredLayer(orb.size, maxSize, totalLayers)
        distanceToPreferred == preferredLayer - orb.z
        \* acceleration * deltaTime, in 0.01 layer/s
        dvz == RDiv(distanceToPreferred * strengthTenths * deltaTime, 1000)
        vz1 == orb.vz + dvz
    IN  [orb EXCEPT !.vz = IF Abs(vz1) > MaxDriftSpeed THEN Sign(vz1) * MaxDriftSpeed ELSE vz1]

\* A wander step turns the heading by a small angle theta with
\* cos = 2499/2501, sin = 100/2501 (about 0.04 rad); turn is the sign of
\* angularChange, 0 when the change is negligible.
WanderCos == 2499
WanderSin == 100
WanderDen == 2501

applyWander(orb, deltaTime, turn) ==
    IF ~ValidDeltaTime(deltaTime) THEN orb
    ELSE IF turn = 0 THEN orb
    ELSE IF orb.vx = 0 /\ orb.vy = 0 THEN orb
    ELSE LET vx1 == RDiv(orb.vx * WanderCos - turn * orb.vy * WanderSin, WanderDen)
             vy1 == RDiv(orb.vy * WanderCos + turn * orb.vx * WanderSin, WanderDen)
         IN  [orb EXCEPT !.vx = vx1, !.vy = vy1, !.angle = Atan2(vy1, vx1)]

\* The array holding the entries 1 .. n of f.
ArrayOf(f, n) == SubSeq(f, 1, n)

\* -------------------------------------------------------- MouseRepulsion

\* Repulsion radius (px) and strength (px/s^2).
RepulsionRadius == 150
RepulsionStrength == 80

\* The push on an orb at offset (dx, dy) and distance dist (0.1 px) from the
\* pointer, given the acceleration (0.001 px/s^2) at that distance.
RepelAt(orb, dx, dy, dist, acceleration, deltaTime) ==
    [orb EXCEPT
        !.vx = @ + RDiv(RDiv(acceleration * RDiv(dx * 1000, dist), 1000) * deltaTime, 10000),
        !.vy = @ + RDiv(RDiv(acceleration * RDiv(dy * 1000, dist), 1000) * deltaTime, 10000),
        !.angle = Atan2(orb.vy + RDiv(RDiv(acceleration * RDiv(dy * 1000, dist), 1000)
                                      * deltaTime, 10000),
                        orb.vx + RDiv(RDiv(acceleration * RDiv(dx * 1000, dist), 1000)
                                      * deltaTime, 10000))]

\* falloff = 1 - dist / radius in 1/1000; acceleration = falloff^2 * strength.
RepelWithin(orb, dx, dy, dist, radius, repulsionStrength, deltaTime) ==
    RepelAt(orb, dx, dy, dist,
            ((((radius - dist) * 1000) \div radius) * (((radius - dist) * 1000) \div radius)
             * repulsionStrength) \div 1000,
            deltaTime)

\* The velocity change of one orb; mouse = [x, y] in 0.1 px.
RepelOne(orb, mouse, deltaTime, repulsionRadius, repulsionStrength) ==
    LET dx == orb.pxX - mouse.x
        dy == orb.pxY - mouse.y
        distSq == dx * dx + dy * dy
        radius == 10 * repulsionRadius
    IN  IF distSq >= radius * radius \/ distSq < 100 THEN orb
        ELSE RepelWithin(orb, dx, dy, ISqrt(distSq), radius, repulsionStrength, deltaTime)

MouseRepulsion_applyRepulsion(orbList, mouse, deltaTime) ==
    ArrayOf([k \in 1 .. Len(orbList) |->
                RepelOne(orbList[k], mouse, deltaTime, RepulsionRadius, RepulsionStrength)],
            Len(orbList))

\* ---------------------------------------------------------- OrbAvoidance

\* Velocity nudge (px/s) of the soft repulsion between nearby orbs.
AvoidanceNudge == 1

\* Cell-space distance test of the soft repulsion: another orb's centre lies
\* within the sum of the two avoidance radii.
WithinAvoidance(a, b, vpc) ==
    LET dx == OrbCellX(b, vpc) - OrbCellX(a, vpc)
        dy == OrbCellY(b, vpc) - OrbCellY(a, vpc)
        dz == RoundLayer(b.z) - RoundLayer(a.z)
        reach == AvoidanceRadius(a.size) + AvoidanceRadius(b.size)
    IN  dx * dx + dy * dy + dz * dz <= reach * reach

\* The nudge of orb a away from orb b.
NudgeAway(a, b) ==
    [a EXCEPT !.vx = @ + AvoidanceNudge * Sign(a.pxX - b.pxX),
              !.vy = @ + AvoidanceNudge * Sign(a.pxY - b.pxY),
              !.angle = Atan2(a.vy + AvoidanceNudge * Sign(a.pxY - b.pxY),
                              a.vx + AvoidanceNudge * Sign(a.pxX - b.pxX))]

\* Orb k after the soft repulsion, near being the indices of the orbs in
\* avoidance range of it.
AvoidOne(orbList, k, near, pushK, deltaTime) ==
    IF near = {} \/ pushK = 0 \/ deltaTime <= 0 THEN orbList[k]
    ELSE NudgeAway(orbList[k], orbList[CHOOSE j \in near : \A i \in near : j <= i])

\* OrbAvoidance.applyRepulsion: each orb with a neighbour in avoidance range
\* is nudged away from it along X and Y; push[k] in {0, 1} is the strength
\* of that nudge for orb k.
OrbAvoidance_applyRepulsion(orbList, vpc, deltaTime, push) ==
    ArrayOf([k \in 1 .. Len(orbList) |->
                AvoidOne(orbList, k,
                         {j \in 1 .. Len(orbList) :
                             j # k /\ WithinAvoidance(orbList[k], orbList[j], vpc)},
                         push[k], deltaTime)],
            Len(orbList))

\* ------------------------------------------------------- OrbOrbCollision

\* Restitution of the approaching-pair impulse, in 1/10.
ElasticityTenths == 8
\* Minimum separation speed for stuck pairs, px/s.
MinSeparationSpeed == 20

\* Unit vectors (in 1/1000) drawn for a pair at the same position.
RandomNormals ==
    { [x |-> 1000, y |-> 0, z |-> 0], [x |-> 0, y |-> -1000, z |-> 0],
      [x |-> 0, y |-> 0, z |-> 1000] }

\* The approaching-pair impulse (0.001 px/s) on the orb whose partner has
\* mass otherMass:
\* impulse = (elasticity * otherMass / totalMass) * dvn
Impulse(otherMass, totalMass, dvn) ==
    (ElasticityTenths * otherMass * dvn) \div (10 * totalMass)

\* Relative velocity of A with respect to B along the normal n (1/1000),
\* in 0.001 px/s; vz enters in layers/s as in the source.
NormalRelVel(a, b, n) ==
    (a.vx - b.vx) * n.x + (a.vy - b.vy) * n.y + RDiv((a.vz - b.vz) * n.z, 100)

\* The collision normal (1/1000) and centre distance (0.001 cell) of a pair
\* with centre offset (dx, dy, dz) at distance dist; rn is the random
\* direction used when the centres coincide.
GeometryAt(dx, dy, dz, distSq, dist, minDist, rn) ==
    [ touching |-> distSq < minDist * minDist,
      minDist |-> minDist,
      dist |-> dist,
      n |-> IF distSq < 1000 THEN rn
            ELSE [x |-> RDiv(dx * 1000, dist), y |-> RDiv(dy * 1000, dist),
                  z |-> RDiv(dz * 1000, dist)] ]

GeometryOf(dx, dy, dz, minDist, rn) ==
    GeometryAt(dx, dy, dz, dx * dx + dy * dy + dz * dz,
               IF dx * dx + dy * dy + dz * dz < 1000 THEN 1
               ELSE ISqrt(dx * dx + dy * dy + dz * dz),
               minDist, rn)

PairGeometry(a, b, vpc, rn) ==
    GeometryOf(RDiv((b.pxX - a.pxX) * 1000, vpc.cellSizeXPx),
               RDiv((b.pxY - a.pxY) * 1000, vpc.cellSizeYPx),
               b.z - a.z,
               ((a.size - 1) + (b.size - 1) + 1) * 1000, rn)

\* orb.angle = Math.atan2(orb.vy, orb.vx)
WithAngle(orb) == [orb EXCEPT !.angle = Atan2(orb.vy, orb.vx)]

\* One orb of a touching pair after position correction by separation
\* (0.001 cell) and the velocity change impulse (0.001 px/s) along
\* dir * n, dir = -1 for orb A and 1 for orb B; zScale is 10000 for an
\* approaching pair and 200000 (the factor 0.05) for a stuck one.
PushOrb(orb, vpc, n, dir, separation, act, impulse, zScale) ==
    WithAngle(
        [orb EXCEPT
            !.pxX = @ + dir * RDiv(RDiv(n.x * separation, 1000) * vpc.cellSizeXPx, 1000),
            !.pxY = @ + dir * RDiv(RDiv(n.y * separation, 1000) * vpc.cellSizeYPx, 1000),
            !.z = @ + dir * RDiv(n.z * separation, 1000),
            !.vx = IF act THEN @ + dir * RDiv(impulse * n.x, 1000000) ELSE @,
            !.vy = IF act THEN @ + dir * RDiv(impulse * n.y, 1000000) ELSE @,
            !.vz = IF act THEN @ + dir * RDiv(impulse * n.z, zScale) ELSE @])

\* The body of the pair loop for a touching pair with normal n, overlap
\* (0.001 cell), overlapRatio (1/1000) and normal relative velocity dvn.
ResolveTouching(a, b, vpc, n, overlap, overlapRatio, dvn) ==
    LET totalMass == a.size + b.size
        separationMultiplier == 1200 + (800 * overlapRatio) \div 1000
        Separation(otherMass) ==
            IF overlap > 0
            THEN (overlap * otherMass * separationMultiplier) \div (totalMass * 1000)
            ELSE 0
        approaching == dvn > 0
        stuck == ~approaching /\ overlapRatio > 300
        ImpulseOn(otherMass) ==
            IF approaching THEN Impulse(otherMass, totalMass, dvn)
            ELSE (MinSeparationSpeed * overlapRatio * otherMass) \div totalMass
        zScale == IF approaching THEN 10000 ELSE 200000
    IN  << PushOrb(a, vpc, n, -1, Separation(b.size), approaching \/ stuck,
                   ImpulseOn(b.size), zScale),
           PushOrb(b, vpc, n, 1, Separation(a.size), approaching \/ stuck,
                   ImpulseOn(a.size), zScale) >>

ResolveGeometry(a, b, vpc, geo) ==
    IF ~geo.touching THEN <<a, b>>
    ELSE ResolveTouching(a, b, vpc, geo.n, geo.minDist - geo.dist,
                         IF geo.minDist - geo.dist > 0
                         THEN ((geo.minDist - geo.dist) * 1000) \div geo.minDist ELSE 0,
                         NormalRelVel(a, b, geo.n))

\* One iteration of the pair loop of resolveCollisions: the pair (a, b)
\* after position correction and velocity resolution.
ResolvePair(a, b, vpc, rn) == ResolveGeometry(a, b, vpc, PairGeometry(a, b, vpc, rn))

\* Writes the resolved pair r back at the indices i and j.
WithPair(orbList, i, j, r) == [orbList EXCEPT ![i] = r[1], ![j] = r[2]]

\* The pair loop, from pair (i, j) on, i < j, in the source's order.
RECURSIVE ResolveFrom(_, _, _, _, _)
ResolveFrom(orbList, vpc, rn, i, j) ==
    IF i >= Len(orbList) THEN orbList
    ELSE IF j > Len(orbList) THEN ResolveFrom(orbList, vpc, rn, i + 1, i + 2)
    ELSE ResolveFrom(WithPair(orbList, i, j, ResolvePair(orbList[i], orbList[j], vpc, rn)),
                     vpc, rn, i, j + 1)

resolveCollisions(orbList, vpc, rn) == ResolveFrom(orbList, vpc, rn, 1, 2)

\* ------------------------------------------------------------ lifecycle

\* null of a nullable number ref.
NULL == -1

\* Removes at age >= lifetime.
M_Expired(orb, currentTime) ==
    orb.lifetimeMs # INFINITE_LIFETIME /\ currentTime - orb.createdAt >= orb.lifetimeMs

\* (now - orb.createdAt) > orb.lifetimeMs
Expired(orb, currentTime) == AgeExceeds(currentTime - orb.createdAt, orb.lifetimeMs)

\* PhaseExpiration.execute: [orbs, grid] after removing the orbs whose age
\* at effective time currentTime exceeds their lifetime.
RemoveExpired(orbList, g, vpc, currentTime, expiredOrbs) ==
    IF Len(expiredOrbs) = 0
    THEN [orbs |-> orbList, grid |-> g]
    ELSE [ orbs |-> SelectSeq(orbList, LAMBDA o : ~Expired(o, currentTime)),
           grid |-> ClearAllFrom(g, expiredOrbs, vpc, 1) ]

PhaseExpiration(orbList, g, vpc, currentTime, enableDespawning) ==
    IF ~enableDespawning THEN [orbs |-> orbList, grid |-> g]
    ELSE RemoveExpired(orbList, g, vpc, currentTime,
                       SelectSeq(orbList, LAMBDA o : Expired(o, currentTime)))

\* Continuous-spawn configuration (counts, px, px^2, ticks of 100 ms).
TargetOrbCountAt4K == 600
ReferenceScreenArea == 8294400
MinOrbCount == 50
DelayAfterBurstMs == 30
BaseSpawnRateAt4K == 50
MaxSpawnsPerFrame == 5
EdgeMarginPx == 50

\* Burst configuration.
BurstTargetCount == 87
BurstMinSpeed == 400
MinLifetimeMs == 100
MaxLifetimeMs == 1800
SpawnDelayMaxMs == 1

\* Window size in px of a viewport of vx by vy cells.
WindowSizeOf(vx, vy) == [width |-> (vx * CellSizeXPx) \div 10, height |-> (vy * CellSizeYPx) \div 10]

\* Greatest common divisor of two positive integers.
RECURSIVE GCD(_, _)
GCD(a, b) == IF b = 0 THEN a ELSE GCD(b, a % b)

\* areaScale = screenArea / referenceScreenArea as a fraction num / den in
\* lowest terms.
AreaScale(window) ==
    LET screenArea == window.width * window.height
        g == GCD(screenArea, ReferenceScreenArea)
    IN  [num |-> screenArea \div g, den |-> ReferenceScreenArea \div g]

\* The scaled count without the floor of minOrbCount.
M_TargetCount(window) ==
    RoundDiv(TargetOrbCountAt4K * AreaScale(window).num, AreaScale(window).den)

\* targetCount = max(minOrbCount, round(targetOrbCountAt4K * areaScale))
TargetCount(window) ==
    Max(MinOrbCount,
        RoundDiv(TargetOrbCountAt4K * AreaScale(window).num, AreaScale(window).den))

\* spawnsThisFrame of the continuous spawner; extraSpawn is the outcome of
\* Math.random() < fractionalChance when that chance is positive.
SpawnsThisFrame(window, currentCount, deltaTime, extraSpawn) ==
    LET targetCount == TargetCount(window)
        deficit == targetCount - currentCount
        areaScale == AreaScale(window)
        \* expectedSpawns = baseSpawnRateAt4K * areaScale * (deficit / targetCount) * deltaTime
        \*                = num / den, deltaTime in 100 ms
        num == (BaseSpawnRateAt4K \div 10) * areaScale.num
               * Min(deficit, targetCount) * deltaTime
        den == areaScale.den * targetCount
        guaranteedSpawns == num \div den
        fractional == num % den # 0
        extra == IF fractional /\ extraSpawn THEN 1 ELSE 0
    IN  IF deficit <= 0 \/ deltaTime <= 0 THEN 0
        ELSE Min(guaranteedSpawns + extra, MaxSpawnsPerFrame)

\* Smallest id not carried by a live orb (crypto.randomUUID(): fresh).
FreshId(orbList) ==
    CHOOSE i \in 1 .. (Len(orbList) + 1) :
        /\ \A k \in 1 .. Len(orbList) : orbList[k].id # i
        /\ \A j \in 1 .. (i - 1) : \E k \in 1 .. Len(orbList) : orbList[k].id = j

\* The orb object built by OrbFactory.create / the spawn literals.
MakeOrb(id, pxX, pxY, z, vx, vy, vz, speed, size, createdAt, lifetimeMs, wanderTurn) ==
    [ id |-> id, pxX |-> pxX, pxY |-> pxY, z |-> z,
      vx |-> vx, vy |-> vy, vz |-> vz,
      speed |-> speed, angle |-> Atan2(vy, vx), size |-> size,
      createdAt |-> createdAt, lifetimeMs |-> lifetimeMs,
      wanderTurn |-> wanderTurn ]

\* orbsRef.current.push(newOrb) with OrbGridMarking.markOrbCircular.
AddOrb(orbList, g, vpc, newOrb) ==
    [orbs |-> Append(orbList, newOrb), grid |-> markOrbCircular(g, newOrb, vpc)]

\* One iteration of the loop of spawnRandomOrbs / spawnOrbBurst for a draw
\* d of the random numbers: [orbs, grid] with the new orb appended and
\* marked, or unchanged when no validated position was found. The position
\* d.pos stands for the retry sequence: its first position that validates,
\* or a position that fails when all maxRetries attempts fail.
SpawnOne(orbList, g, vpc, wallNow, d, maxSize) ==
    LET layer == getPreferredLayer(d.size, maxSize, g.config.layers)
    IN  IF ~canSpawn(d.pos.x, d.pos.y, layer, d.size, g, vpc)
        THEN [orbs |-> orbList, grid |-> g]
        ELSE AddOrb(orbList, g, vpc,
                    MakeOrb(FreshId(orbList), d.pos.x, d.pos.y, layer,
                            d.vx, d.vy, 0, d.speed, d.size,
                            wallNow - d.spawnDelay, d.lifetimeMs, d.wanderTurn))

\* The spawn loop over draws[k .. Len(draws)], r = [orbs, grid].
RECURSIVE SpawnFrom(_, _, _, _, _, _)
SpawnFrom(r, vpc, wallNow, draws, maxSize, k) ==
    IF k > Len(draws) THEN r
    ELSE SpawnFrom(SpawnOne(r.orbs, r.grid, vpc, wallNow, draws[k], maxSize),
                   vpc, wallNow, draws, maxSize, k + 1)

SpawnLoop(orbList, g, vpc, wallNow, draws, maxSize, k) ==
    SpawnFrom([orbs |-> orbList, grid |-> g], vpc, wallNow, draws, maxSize, k)

\* Forgets the paused interval on resume.
M_handlePauseChange(wasPaused, isPaused, wallNow, pausedAt, pausedOffset) ==
    IF ~wasPaused /\ isPaused
    THEN [pausedAtTime |-> wallNow, pausedTimeOffset |-> pausedOffset]
    ELSE [pausedAtTime |-> NULL, pausedTimeOffset |-> pausedOffset]

\* usePauseTimeTracking.handlePauseChange: [pausedAtTime, pausedTimeOffset].
handlePauseChange(wasPaused, isPaused, wallNow, pausedAt, pausedOffset) ==
    IF ~wasPaused /\ isPaused
    THEN [pausedAtTime |-> wallNow, pausedTimeOffset |-> pausedOffset]
    ELSE IF wasPaused /\ ~isPaused /\ pausedAt # NULL
         THEN [pausedAtTime |-> NULL, pausedTimeOffset |-> pausedOffset + (wallNow - pausedAt)]
         ELSE [pausedAtTime |-> pausedAt, pausedTimeOffset |-> pausedOffset]

\* usePauseTimeTracking.getEffectiveTime.
getEffectiveTime(paused, wallNow, pausedAt, pausedOffset) ==
    IF paused /\ pausedAt # NULL
    THEN pausedAt - pausedOffset
    ELSE wallNow - pausedOffset

\* ---------------------------------------------------------------- state

VARIABLES
    grid,                \* gridRef.current
    vpc,                 \* viewportCellsRef.current
    windowSize,          \* windowSize state, px
    orbs,                \* orbsRef.current
    now,                 \* performance.now()
    lastFrameTime,       \* lastFrameTimeRef.current (0: no frame yet)
    pausePhysics,        \* pausePhysicsRef.current
    pausedAtTime,        \* pausedAtTimeRef.current
    pausedTimeOffset,    \* pausedTimeOffsetRef.current
    enableOrbSpawning,   \* enableOrbSpawningRef.current
    enableOrbDespawning, \* enableOrbDespawningRef.current
    disableCollisions,   \* disableCollisionsRef.current
    disableAvoidance,    \* disableAvoidanceRef.current
    isPageVisible,       \* isPageVisibleRef.current
    burstTime,           \* burstTimeRef.current
    hasBurst,            \* hasBurstRef.current
    mousePos,            \* mousePosRef.current
    animator,            \* GridAnimator: isRunning, startTime
    hasAnimated,         \* hasAnimatedRef.current
    raf,                 \* requestAnimationFrame queue and the refs holding its ids
    inputs,              \* number of inputs handled so far
    obs                  \* the last operation run, its inputs and what it returned

vars ==
    << grid, vpc, windowSize, orbs, now, lastFrameTime, pausePhysics, pausedAtTime,
       pausedTimeOffset, enableOrbSpawning, enableOrbDespawning, disableCollisions,
       disableAvoidance, isPageVisible, burstTime, hasBurst, mousePos, animator,
       hasAnimated, raf, inputs, obs >>

gridVars == << grid, vpc, windowSize >>
clockVars == << now, lastFrameTime >>
pauseVars == << pausePhysics, pausedAtTime, pausedTimeOffset >>
debugVars == << enableOrbSpawning, enableOrbDespawning, disableCollisions, disableAvoidance >>
burstVars == << burstTime, hasBurst >>
animVars == << animator, hasAnimated, raf >>

\* No effect has run and no animation frame is requested. The specifications
\* that do not follow single requests keep raf at this value: there a frame
\* is delivered whenever the loop is due one.
NoRequests ==
    [ instance |-> 0, active |-> FALSE, animators |-> << >>, pending |-> {}, nextId |-> 1,
      loopId |-> NULL, caller |-> 0, stopped |-> << >> ]

\* Effective (pause-adjusted) time in the current state.
EffectiveTime == getEffectiveTime(pausePhysics, now, pausedAtTime, pausedTimeOffset)

\* Reveal duration in ticks.
RevealDuration == 1

\* Ticks the page sleeps (hidden tab: no animation frames).
SleepTicks == 99

\* --------------------------------------------------------- physics tick

\* The phase-6 state with the outcome r of orb k written back.
WallNext(w, k, r) ==
    [ orbs |-> [w.orbs EXCEPT ![k] = r.orb], grid |-> r.grid,
      results |-> Append(w.results, r.collision) ]

\* The phase-6.5 state with the outcome r of orb k written back.
UnstickNext(u, k, r) == [orbs |-> [u.orbs EXCEPT ![k] = r.orb], grid |-> r.grid]

\* One orb of PhaseWallCollision.execute, phase 6, on the grid from which
\* the orb was cleared: [orb, grid, collision].
WallStep(orb, cleared, vpcv, deltaTime, collision) ==
    [ orb |-> updatePosition(IF collision.blocked
                             THEN applyReflection(orb, collision.reflectX,
                                                  collision.reflectY, collision.reflectZ)
                             ELSE orb,
                             deltaTime),
      grid |-> markOrbCircular(cleared, orb, vpcv),
      collision |-> collision ]

WallOrb(orb, cleared, vpcv, deltaTime) ==
    WallStep(orb, cleared, vpcv, deltaTime, checkMove(orb, deltaTime, cleared, vpcv))

\* Phase 6 from orb k on: clear the orb, checkMove, re-mark it, reflect if
\* blocked, integrate. w = [orbs, grid, results]; results collects the
\* CollisionResult of every orb.
RECURSIVE WallPhaseFrom(_, _, _, _)
WallPhaseFrom(w, vpcv, deltaTime, k) ==
    IF k > Len(w.orbs) THEN w
    ELSE WallPhaseFrom(WallNext(w, k, WallOrb(w.orbs[k],
                                              clearOrbCircular(w.grid, w.orbs[k], vpcv),
                                              vpcv, deltaTime)),
                       vpcv, deltaTime, k + 1)

\* One orb of phase 6.5 on the grid from which it was cleared.
UnstickStep(cleared, vpcv, unstuck) ==
    [orb |-> unstuck, grid |-> markOrbCircular(cleared, unstuck, vpcv)]

UnstickOrb(orb, cleared, vpcv, rnd) ==
    UnstickStep(cleared, vpcv, unstickFromWall(orb, cleared, vpcv, rnd))

\* Phase 6.5, from orb k on: clear, unstickFromWall, re-mark. u = [orbs, grid].
RECURSIVE UnstickPhaseFrom(_, _, _, _)
UnstickPhaseFrom(u, vpcv, rnd, k) ==
    IF k > Len(u.orbs) THEN u
    ELSE UnstickPhaseFrom(UnstickNext(u, k, UnstickOrb(u.orbs[k],
                                                       clearOrbCircular(u.grid, u.orbs[k], vpcv),
                                                       vpcv, rnd)),
                          vpcv, rnd, k + 1)

\* Phase 2, mouse repulsion.
PhaseMouseRepulsion(orbList, mouse, deltaTime, noAvoidance) ==
    IF ~noAvoidance /\ mouse.present
    THEN MouseRepulsion_applyRepulsion(orbList, mouse, deltaTime)
    ELSE orbList

\* Phase 3, speed limiting.
PhaseSpeedLimit(orbList, deltaTime) ==
    ArrayOf([k \in 1 .. Len(orbList) |->
                applySpeedLimit(orbList[k], BaseMaxSpeed, MinMaxSpeed, DecelerationRatePct,
                                deltaTime)],
            Len(orbList))

\* Phase 4, wander and layer attraction.
PhaseWander(orbList, deltaTime) ==
    ArrayOf([k \in 1 .. Len(orbList) |->
                applyWander(orbList[k], deltaTime, orbList[k].wanderTurn)],
            Len(orbList))

PhaseLayerAttraction(orbList, totalLayers, deltaTime) ==
    ArrayOf([k \in 1 .. Len(orbList) |->
                applyLayerAttraction(orbList[k], SpawnMaxSize, totalLayers,
                                     AttractionStrengthTenths, deltaTime)],
            Len(orbList))

\* Phase 5, orb-orb avoidance.
PhaseOrbAvoidance(orbList, vpcv, deltaTime, noAvoidance, push) ==
    IF ~noAvoidance
    THEN OrbAvoidance_applyRepulsion(orbList, vpcv, deltaTime,
                                     [k \in 1 .. Len(orbList) |-> push])
    ELSE orbList

\* Phase 5.5, orb-orb collision.
PhaseOrbCollision(orbList, vpcv, noCollisions, normal) ==
    IF ~noCollisions THEN resolveCollisions(orbList, vpcv, normal) ELSE orbList

\* Limits the speed before the mouse repulsion is applied.
M_MoveToWall(orbList, g, vpcv, mouse, deltaTime, noCollisions, noAvoidance, rnd) ==
    WallPhaseFrom(
        [ orbs |->
            PhaseOrbCollision(
                PhaseOrbAvoidance(
                    PhaseLayerAttraction(
                        PhaseWander(
                            PhaseMouseRepulsion(
                                PhaseSpeedLimit(orbList, deltaTime),
                                mouse, deltaTime, noAvoidance),
                            deltaTime),
                        g.config.layers, deltaTime),
                    vpcv, deltaTime, noAvoidance, rnd.push),
                vpcv, noCollisions, rnd.normal),
          grid |-> markInitial(g, orbList, vpcv),
          results |-> << >> ],
        vpcv, deltaTime, 1)

\* Phases 1 to 6 of a running tick on (orbList, g): [orbs, grid, results].
\* rnd holds the random numbers these phases draw: rnd.push (avoidance) and
\* rnd.normal (separation direction of a same-position pair).
MoveToWall(orbList, g, vpcv, mouse, deltaTime, noCollisions, noAvoidance, rnd) ==
    WallPhaseFrom(
        [ orbs |->
            PhaseOrbCollision(
                PhaseOrbAvoidance(
                    PhaseLayerAttraction(
                        PhaseWander(
                            PhaseSpeedLimit(
                                PhaseMouseRepulsion(orbList, mouse, deltaTime, noAvoidance),
                                deltaTime),
                            deltaTime),
                        g.config.layers, deltaTime),
                    vpcv, deltaTime, noAvoidance, rnd.push),
                vpcv, noCollisions, rnd.normal),
          grid |-> markInitial(g, orbList, vpcv),
          results |-> << >> ],
        vpcv, deltaTime, 1)

\* Phase 8 on the outcome of phase 6.5.
MarkFinal(unstuck, vpcv, results) ==
    [ orbs |-> unstuck.orbs,
      grid |-> markInitial(unstuck.grid, unstuck.orbs, vpcv),
      results |-> results ]

\* Phases 6.5 and 8 on the outcome of the wall phase; rnd = [x, y] are the
\* random unstick directions.
UnstickAndMark(wall, vpcv, rnd) ==
    MarkFinal(UnstickPhaseFrom([orbs |-> wall.orbs, grid |-> wall.grid], vpcv, rnd, 1),
              vpcv, wall.results)

\* Draws of the continuous spawner for a window: positions at the two ends
\* of [edgeMargin, size - edgeMargin], sizes 1 and 2, the slowest speed.
SpawnDraws(window) ==
    { [ pos |-> [x |-> 10 * EdgeMarginPx, y |-> 10 * EdgeMarginPx],
        size |-> 1, vx |-> BurstMinSpeed, vy |-> 0, speed |-> BurstMinSpeed,
        lifetimeMs |-> MinLifetimeMs, spawnDelay |-> 0, wanderTurn |-> 0 ],
      [ pos |-> [x |-> 10 * (window.width - EdgeMarginPx),
                 y |-> 10 * (window.height - EdgeMarginPx)],
        size |-> 2, vx |-> 0, vy |-> -283, speed |-> 283,
        lifetimeMs |-> MaxLifetimeMs, spawnDelay |-> 0, wanderTurn |-> 1 ] }

\* Phase 10 on the outcome exp of phase 9: spawnsThisFrame orbs are spawned
\* with the draw d; at most MaxOrbs orbs are kept alive.
SpawnPhase(exp, vpcv, wallNow, spawnsThisFrame, d) ==
    IF Min(spawnsThisFrame, MaxOrbs - Len(exp.orbs)) > 0
    THEN SpawnFrom(exp, vpcv, wallNow,
                   [k \in 1 .. Min(spawnsThisFrame, MaxOrbs - Len(exp.orbs)) |-> d],
                   BurstMaxSize, 1)
    ELSE exp

ContinuousSpawn(exp, vpcv, window, wallNow, spawnOn, deltaTime, extraSpawn, d) ==
    SpawnPhase(exp, vpcv, wallNow,
               IF spawnOn THEN SpawnsThisFrame(window, Len(exp.orbs), deltaTime, extraSpawn)
               ELSE 0,
               d)

\* Phases 9 and 10 on (orbList, g): expiration at effective time t, then
\* continuous spawning (when spawnOn) with the draw d.
LifecyclePhases(orbList, g, vpcv, window, t, wallNow, despawning, spawnOn,
                deltaTime, extraSpawn, d) ==
    ContinuousSpawn(PhaseExpiration(orbList, g, vpcv, t, despawning), vpcv, window, wallNow,
                    spawnOn, deltaTime, extraSpawn, d)

\* What obs holds after a handler other than a frame.
Idle == [op |-> "none"]

\* Random numbers phases 5 and 5.5 may draw: an avoidance strength when two
\* orbs are within avoidance range, a separation direction when two orbs
\* are at the same position.
RndChoices(orbList, vpcv, noCollisions, noAvoidance) ==
    LET pairs == {p \in (1 .. Len(orbList)) \X (1 .. Len(orbList)) : p[1] < p[2]}
        near == \E p \in pairs : WithinAvoidance(orbList[p[1]], orbList[p[2]], vpcv)
        same == \E p \in pairs :
                    /\ orbList[p[1]].pxX = orbList[p[2]].pxX
                    /\ orbList[p[1]].pxY = orbList[p[2]].pxY
                    /\ orbList[p[1]].z = orbList[p[2]].z
    IN  { [push |-> pu, normal |-> n] :
            pu \in (IF near /\ ~noAvoidance THEN {0, 1} ELSE {0}),
            n \in (IF same /\ ~noCollisions
                   THEN RandomNormals ELSE {[x |-> 1000, y |-> 0, z |-> 0]}) }

\* Does unstickFromWall draw a random direction for some orb?
DrawsUnstickSign(orbList, g, vpcv) ==
    \E k \in 1 .. Len(orbList) :
        /\ orbList[k].size = 1
        /\ orbList[k].vx = 0 \/ orbList[k].vy = 0
        /\ isWall(g, OrbCellX(orbList[k], vpcv), OrbCellY(orbList[k], vpcv),
                  RoundLayer(orbList[k].z))

\* Spawns as soon as there has been a burst.
M_SpawnCondition(t) ==
    /\ burstTime # NULL
    /\ isPageVisible
    /\ enableOrbSpawning

\* The continuous-spawn condition of phase 10 at effective time t.
SpawnCondition(t) ==
    /\ burstTime # NULL
    /\ (t - burstTime) > DelayAfterBurstMs
    /\ isPageVisible
    /\ enableOrbSpawning

\* The refs and the observation after a running tick whose lifecycle
\* phases ended in l.
CommitTick(l, easedProgress, deltaTime, results) ==
    /\ orbs' = l.orbs
    /\ grid' = l.grid
    /\ obs' = [op |-> "frame", easedProgress |-> easedProgress, deltaTime |-> deltaTime,
               results |-> results]

\* Phases 9 and 10 on the outcome m of phase 8.
AfterMark(m, t, spawnOn, easedProgress, deltaTime, extraSpawn, d) ==
    CommitTick(LifecyclePhases(m.orbs, m.grid, vpc, windowSize, t, now,
                               enableOrbDespawning, spawnOn, deltaTime, extraSpawn, d),
               easedProgress, deltaTime, m.results)

\* Phases 6.5 to 10 on the outcome wall of phase 6.
AfterWall(wall, t, spawnOn, easedProgress, deltaTime, extraSpawn, d) ==
    \E rnd \in (IF DrawsUnstickSign(wall.orbs, wall.grid, vpc)
                THEN {[x |-> 1, y |-> 1], [x |-> -1, y |-> -1], [x |-> 1, y |-> -1]}
                ELSE {[x |-> 1, y |-> 1]}) :
        AfterMark(UnstickAndMark(wall, vpc, rnd), t, spawnOn, easedProgress, deltaTime,
                  extraSpawn, d)

\* A running tick at effective time t.
RunningTick(t, spawnOn, easedProgress, deltaTime) ==
    \E rnd \in RndChoices(orbs, vpc, disableCollisions, disableAvoidance) :
    \E extraSpawn \in (IF spawnOn THEN BOOLEAN ELSE {FALSE}) :
    \E d \in (IF spawnOn /\ extraSpawn THEN SpawnDraws(windowSize)
              ELSE {CHOOSE x \in SpawnDraws(windowSize) : TRUE}) :
        AfterWall(MoveToWall(orbs, grid, vpc, mousePos, deltaTime, disableCollisions,
                             disableAvoidance, rnd),
                  t, spawnOn, easedProgress, deltaTime, extraSpawn, d)

\* Runs the tick whether or not the pause flag is set.
M_runPhysics(easedProgress, deltaTime) ==
    IF easedProgress >= 1000
    THEN RunningTick(EffectiveTime, SpawnCondition(EffectiveTime), easedProgress, deltaTime)
    ELSE /\ grid' = grid
         /\ orbs' = orbs
         /\ obs' = [op |-> "frame", easedProgress |-> easedProgress,
                    deltaTime |-> deltaTime, results |-> << >>]

\* usePhysicsLoop.runPhysics(easedProgress, deltaTime); easedProgress in 1/1000.
runPhysics(easedProgress, deltaTime) ==
    IF easedProgress >= 1000 /\ ~pausePhysics
    THEN RunningTick(EffectiveTime, SpawnCondition(EffectiveTime), easedProgress, deltaTime)
    ELSE IF easedProgress >= 1000 /\ pausePhysics
    THEN /\ grid' = markInitial(grid, orbs, vpc)
         /\ orbs' = orbs
         /\ obs' = [op |-> "frame", easedProgress |-> easedProgress,
                    deltaTime |-> deltaTime, results |-> << >>]
    ELSE /\ grid' = grid
         /\ orbs' = orbs
         /\ obs' = [op |-> "frame", easedProgress |-> easedProgress,
                    deltaTime |-> deltaTime, results |-> << >>]

\* Cubic ease-out of the reveal progress, both in 1/1000.
Eased(progress) ==
    1000 - ((1000 - progress) * (1000 - progress) * (1000 - progress)) \div 1000000

\* GridAnimator.animate with the onUpdate / onComplete callbacks of
\* useAnimationLoop: one animation frame of the reveal.
AnimatorFrame ==
    /\ animator.isRunning
    /\ lastFrameTime = 0 \/ now > lastFrameTime
    /\ LET startTime == IF animator.startTime = NULL THEN now ELSE animator.startTime
           elapsed == now - startTime
           progress == Min(1000, (elapsed * 1000) \div RevealDuration)
           dt == IF lastFrameTime # 0 THEN now - lastFrameTime ELSE 0
       IN  /\ lastFrameTime' = now
           /\ runPhysics(Eased(progress), dt)
           /\ animator' = [isRunning |-> progress < 1000, startTime |-> startTime]
           /\ hasAnimated' = (IF progress < 1000 THEN hasAnimated ELSE TRUE)
           /\ raf' = raf
    /\ UNCHANGED << vpc, windowSize, now, pauseVars, debugVars, isPageVisible,
                    burstVars, mousePos, inputs >>

\* physicsLoop of useAnimationLoop: one frame after the reveal.
PhysicsFrame ==
    /\ hasAnimated
    /\ now > lastFrameTime
    /\ lastFrameTime' = now
    /\ runPhysics(1000, now - lastFrameTime)
    /\ UNCHANGED << vpc, windowSize, now, pauseVars, debugVars, isPageVisible,
                    burstVars, mousePos, animVars, inputs >>

\* ------------------------------------------------------- other handlers

\* The clock advances by one tick between animation frames.
Tick ==
    /\ (now % SleepTicks) < MaxNow
    /\ now' = now + 1
    /\ obs' = Idle
    /\ UNCHANGED << gridVars, orbs, lastFrameTime, pauseVars, debugVars, isPageVisible,
                    burstVars, mousePos, animVars, inputs >>

\* The page sleeps: no animation frame is delivered for SleepTicks.
Sleep ==
    /\ now <= MaxNow
    /\ now' = now + SleepTicks
    /\ obs' = Idle
    /\ UNCHANGED << gridVars, orbs, lastFrameTime, pauseVars, debugVars, isPageVisible,
                    burstVars, mousePos, animVars, inputs >>

\* Debug-context states the options panel is put in.
DebugStates ==
    { [ pausePhysics |-> FALSE, enableOrbSpawning |-> TRUE, enableOrbDespawning |-> TRUE,
        disableCollisions |-> FALSE, disableAvoidance |-> FALSE ],
      [ pausePhysics |-> TRUE, enableOrbSpawning |-> TRUE, enableOrbDespawning |-> TRUE,
        disableCollisions |-> FALSE, disableAvoidance |-> FALSE ],
      [ pausePhysics |-> FALSE, enableOrbSpawning |-> FALSE, enableOrbDespawning |-> FALSE,
        disableCollisions |-> TRUE, disableAvoidance |-> TRUE ] }

\* useDebugStateSync: the effect that copies the debug context into the
\* refs and reports a pause change to usePauseTimeTracking.
SyncDebugState(state) ==
    LET wasPaused == pausePhysics
        isPaused == state.pausePhysics
        tracked == handlePauseChange(wasPaused, isPaused, now, pausedAtTime, pausedTimeOffset)
    IN  /\ inputs < MaxInputs
        /\ inputs' = inputs + 1
        /\ enableOrbSpawning' = state.enableOrbSpawning
        /\ enableOrbDespawning' = state.enableOrbDespawning
        /\ disableCollisions' = state.disableCollisions
        /\ disableAvoidance' = state.disableAvoidance
        /\ pausePhysics' = isPaused
        /\ pausedAtTime' = tracked.pausedAtTime
        /\ pausedTimeOffset' = tracked.pausedTimeOffset
        /\ obs' = Idle
        /\ UNCHANGED << gridVars, orbs, clockVars, isPageVisible, burstVars, mousePos,
                        animVars >>

\* visibilitychange handler.
VisibilityChange ==
    /\ inputs < MaxInputs
    /\ inputs' = inputs + 1
    /\ isPageVisible' = ~isPageVisible
    /\ obs' = Idle
    /\ UNCHANGED << gridVars, orbs, clockVars, pauseVars, debugVars, burstVars, mousePos,
                    animVars >>

\* Pointer positions (0.1 px): none, or a point of the viewport.
MousePositions ==
    { [present |-> FALSE, x |-> 0, y |-> 0], [present |-> TRUE, x |-> 600, y |-> 400] }

\* mousemove / mouseleave handler.
MouseMove(p) ==
    /\ inputs < MaxInputs
    /\ inputs' = inputs + 1
    /\ mousePos' = p
    /\ obs' = Idle
    /\ UNCHANGED << gridVars, orbs, clockVars, pauseVars, debugVars, isPageVisible,
                    burstVars, animVars >>

\* Clicks of the debug spawn tool: position (0.1 px), layer, brush size.
ClickInputs ==
    { [pxX |-> 300, pxY |-> 300, z |-> 0, size |-> 1],
      [pxX |-> 800, pxY |-> 300, z |-> 1000, size |-> 2] }

\* Random direction and speed drawn by createOrb: theta = 0, phi = 0,
\* speed 100; theta = pi, cos(phi) = 0.8, speed 50 (vz = sin(phi) * speed * 0.05).
CreateDraws ==
    { [vx |-> 100, vy |-> 0, vz |-> 0, speed |-> 100, wanderTurn |-> 1],
      [vx |-> -40, vy |-> 0, vz |-> 150, speed |-> 50, wanderTurn |-> 0] }

\* useOrbCRUD.createOrb.
CreateOrb(c, d) ==
    /\ inputs < MaxInputs
    /\ inputs' = inputs + 1
    /\ Len(orbs) < MaxOrbs
    /\ IF ~canSpawn(c.pxX, c.pxY, c.z, c.size, grid, vpc)
       THEN UNCHANGED << orbs, grid >>
       ELSE LET newOrb == MakeOrb(FreshId(orbs), c.pxX, c.pxY, c.z, d.vx, d.vy, d.vz,
                                  d.speed, c.size, now, INFINITE_LIFETIME, d.wanderTurn)
            IN  /\ orbs' = Append(orbs, newOrb)
                /\ grid' = markOrbCircular(grid, newOrb, vpc)
    /\ obs' = Idle
    /\ UNCHANGED << vpc, windowSize, clockVars, pauseVars, debugVars, isPageVisible,
                    burstVars, mousePos, animVars >>

\* useOrbCRUD.deleteOrb.
DeleteOrb(id) ==
    /\ inputs < MaxInputs
    /\ inputs' = inputs + 1
    /\ \E k \in 1 .. Len(orbs) : orbs[k].id = id
    /\ LET orbToDelete == orbs[CHOOSE k \in 1 .. Len(orbs) : orbs[k].id = id]
       IN  /\ grid' = clearOrbCircular(grid, orbToDelete, vpc)
           /\ orbs' = SelectSeq(orbs, LAMBDA o : o.id # id)
    /\ obs' = Idle
    /\ UNCHANGED << vpc, windowSize, clockVars, pauseVars, debugVars, isPageVisible,
                    burstVars, mousePos, animVars >>

\* Draws of the burst around the centre: offset from the centre (0.1 px),
\* direction away from it, the slowest speed for the size.
BurstDraws(window) ==
    { [ pos |-> [x |-> 5 * window.width - 300, y |-> 5 * window.height],
        size |-> 1, vx |-> -BurstMinSpeed, vy |-> 0, speed |-> BurstMinSpeed,
        lifetimeMs |-> MinLifetimeMs, spawnDelay |-> SpawnDelayMaxMs, wanderTurn |-> 0 ],
      [ pos |-> [x |-> 5 * window.width + 300, y |-> 5 * window.height],
        size |-> 1, vx |-> BurstMinSpeed, vy |-> 0, speed |-> BurstMinSpeed,
        lifetimeMs |-> MaxLifetimeMs, spawnDelay |-> 0, wanderTurn |-> 1 ] }

\* The refs after a spawn loop that ended in r.
CommitSpawn(r) == orbs' = r.orbs /\ grid' = r.grid

\* useOrbBurst.checkAndBurst with spawnOrbBurst: the one-shot burst.
Burst ==
    /\ inputs < MaxInputs
    /\ inputs' = inputs + 1
    /\ ~hasBurst
    /\ hasBurst' = TRUE
    /\ burstTime' = now
    /\ \E draws \in [1 .. Min(BurstTargetCount, MaxOrbs - Len(orbs)) -> BurstDraws(windowSize)] :
          CommitSpawn(SpawnLoop(orbs, grid, vpc, now, draws, BurstMaxSize, 1))
    /\ obs' = Idle
    /\ UNCHANGED << vpc, windowSize, clockVars, pauseVars, debugVars, isPageVisible,
                    mousePos, animVars >>

\* Viewport sizes (cells) the window is resized between.
WindowViews == { <<ViewCellsX, ViewCellsY>>, <<ViewCellsX - 1, ViewCellsY>> }

\* resize: useGridInitialization builds a new grid for the new window and
\* useAnimationLoop, whose effect depends on gridConfig, restarts the reveal.
Resize(v) ==
    /\ inputs < MaxInputs
    /\ inputs' = inputs + 1
    /\ windowSize' = WindowSizeOf(v[1], v[2])
    /\ grid' = FreshGrid(GridConfigOf(v[1], v[2], FieldLayers))
    /\ vpc' = ViewportCellsOf(v[1], v[2])
    /\ animator' = [isRunning |-> TRUE, startTime |-> NULL]
    /\ hasAnimated' = FALSE
    /\ raf' = raf
    /\ obs' = Idle
    /\ UNCHANGED << orbs, clockVars, pauseVars, debugVars, isPageVisible, burstVars,
                    mousePos >>

Init ==
    /\ windowSize = WindowSizeOf(ViewCellsX, ViewCellsY)
    /\ grid = FreshGrid(GridConfigOf(ViewCellsX, ViewCellsY, FieldLayers))
    /\ vpc = ViewportCellsOf(ViewCellsX, ViewCellsY)
    /\ orbs = << >>
    /\ now = 1
    /\ lastFrameTime = 0
    /\ pausePhysics = FALSE
    /\ pausedAtTime = NULL
    /\ pausedTimeOffset = 0
    /\ enableOrbSpawning = TRUE
    /\ enableOrbDespawning = TRUE
    /\ disableCollisions = FALSE
    /\ disableAvoidance = FALSE
    /\ isPageVisible = TRUE
    /\ burstTime = NULL
    /\ hasBurst = FALSE
    /\ mousePos = [present |-> FALSE, x |-> 0, y |-> 0]
    /\ animator = [isRunning |-> TRUE, startTime |-> NULL]
    /\ hasAnimated = FALSE
    /\ raf = NoRequests
    /\ inputs = 0
    /\ obs = Idle

Next ==
    \/ Tick
    \/ Sleep
    \/ AnimatorFrame
    \/ PhysicsFrame
    \/ \E state \in DebugStates : SyncDebugState(state)
    \/ VisibilityChange
    \/ \E p \in MousePositions : MouseMove(p)
    \/ \E c \in ClickInputs : \E d \in CreateDraws : CreateOrb(c, d)
    \/ \E id \in 1 .. MaxOrbs : DeleteOrb(id)
    \/ Burst
    \/ \E v \in WindowViews : Resize(v)

Spec == Init /\ [][Next]_vars

\* ------------------------------------------------- pause scenario

\* The outcome [orbs, grid] of the burst with the given draws at wall time
\* wallNow on the freshly built field.
BurstOutcome(draws, wallNow) ==
    SpawnLoop(<< >>, FreshGrid(GridConfigOf(ViewCellsX, ViewCellsY, FieldLayers)),
              ViewportCellsOf(ViewCellsX, ViewCellsY), wallNow, draws, BurstMaxSize, 1)

\* The page right after the burst at load: the burst orbs are alive, no
\* frame has run yet; inputs counts the inputs handled from here on.
PauseInit ==
    /\ windowSize = WindowSizeOf(ViewCellsX, ViewCellsY)
    /\ vpc = ViewportCellsOf(ViewCellsX, ViewCellsY)
    /\ \E draws \in [1 .. MaxOrbs -> BurstDraws(WindowSizeOf(ViewCellsX, ViewCellsY))] :
          /\ orbs = BurstOutcome(draws, 1).orbs
          /\ grid = BurstOutcome(draws, 1).grid
    /\ now = 1
    /\ lastFrameTime = 0
    /\ pausePhysics = FALSE
    /\ pausedAtTime = NULL
    /\ pausedTimeOffset = 0
    /\ enableOrbSpawning = TRUE
    /\ enableOrbDespawning = TRUE
    /\ disableCollisions = FALSE
    /\ disableAvoidance = FALSE
    /\ isPageVisible = TRUE
    /\ burstTime = 1
    /\ hasBurst = TRUE
    /\ mousePos = [present |-> FALSE, x |-> 0, y |-> 0]
    /\ animator = [isRunning |-> TRUE, startTime |-> NULL]
    /\ hasAnimated = FALSE
    /\ raf = NoRequests
    /\ inputs = 0
    /\ obs = Idle

\* Time passes, frames run and the options panel pauses and resumes.
PauseNext ==
    \/ Tick
    \/ Sleep
    \/ AnimatorFrame
    \/ PhysicsFrame
    \/ \E state \in DebugStates : SyncDebugState(state)

PauseSpec == PauseInit /\ [][PauseNext]_vars

\* ------------------------------------------------------ grid probing

\* Most writes to the probed grid in a run.
MaxProbeOps == 2

ProbeConfig == GridConfigOf(ProbeViewCells, ProbeViewCells, ProbeLayers)
ProbeVpc == ViewportCellsOf(ProbeViewCells, ProbeViewCells)

\* The middle cell of the probed grid.
ProbeCentre ==
    [ x |-> ProbeConfig.cellsX \div 2, y |-> ProbeConfig.cellsY \div 2,
      layer |-> ProbeConfig.layers \div 2 ]

Offset(c, dx, dy, dz) == [x |-> c.x + dx, y |-> c.y + dy, layer |-> c.layer + dz]

\* Cells written and read: next to the centre, at distance 2 from it, at
\* distance sqrt(5), on the border ring, and outside the dimensions on
\* either side of an axis.
ProbeCells ==
    { Offset(ProbeCentre, 1, 0, 0), Offset(ProbeCentre, 2, 0, 0), Offset(ProbeCentre, 2, 1, 0),
      [x |-> 0, y |-> ProbeCentre.y, layer |-> ProbeCentre.layer],
      [x |-> -1, y |-> 1, layer |-> ProbeCentre.layer],
      [x |-> ProbeCentre.x, y |-> ProbeConfig.cellsY, layer |-> ProbeCentre.layer],
      [x |-> ProbeCentre.x, y |-> ProbeCentre.y, layer |-> ProbeConfig.layers] }

\* The pixel position (0.1 px) of the middle of grid cell c, and its layer
\* (0.001 layer).
\* Cells left of / above the viewport have negative pixel positions, which
\* (px * invCellSize) | 0 truncates toward zero.
CellMid(k, cellSizePx) ==
    IF k >= 0 THEN k * cellSizePx + cellSizePx \div 2 ELSE k * cellSizePx - cellSizePx \div 2

CellMidX(c) == CellMid(c.x - ProbeVpc.startCellX, CellSizeXPx)
CellMidY(c) == CellMid(c.y - ProbeVpc.startCellY, CellSizeYPx)
CellMidZ(c) == c.layer * 1000

\* A resting or moving orb of the given size in the middle of cell c.
ProbeOrb(c, size, vx, vy, vz) ==
    MakeOrb(1, CellMidX(c), CellMidY(c), CellMidZ(c), vx, vy, vz, ISqrt(vx * vx + vy * vy),
            size, 1, INFINITE_LIFETIME, 0)

\* Orbs marked on and cleared from the probed grid: a single cell next to
\* the centre, and a size-2 orb whose body reaches the border ring.
ProbeMarkOrbs ==
    { ProbeOrb(Offset(ProbeCentre, 1, 0, 0), 1, 0, 0, 0),
      ProbeOrb([x |-> 1, y |-> ProbeCentre.y, layer |-> ProbeCentre.layer], 2, 0, 0, 0) }

\* Orbs whose move is checked: from the centre one cell to the right, one
\* cell down and one layer up in a tick, for sizes 1 and 2; and from the
\* cell next to the left border ring into it.
ProbeMoveOrbs ==
    { ProbeOrb(ProbeCentre, 1, CellSizeXPx, 0, 0),
      ProbeOrb(ProbeCentre, 2, CellSizeXPx, CellSizeYPx, 100),
      ProbeOrb([x |-> 1, y |-> ProbeCentre.y, layer |-> ProbeCentre.layer], 1,
               -CellSizeXPx, 0, 0) }

\* Spawn candidates: sizes 1 to 3 in the centre cell, size 2 next to the
\* border ring.
ProbeSpawns ==
    { [cell |-> ProbeCentre, size |-> sz] : sz \in 1 .. 3 }
    \cup { [cell |-> [x |-> 1, y |-> ProbeCentre.y, layer |-> ProbeCentre.layer], size |-> 2] }

ProbeInit ==
    /\ windowSize = WindowSizeOf(ProbeViewCells, ProbeViewCells)
    /\ grid = FreshGrid(ProbeConfig)
    /\ vpc = ProbeVpc
    /\ orbs = << >>
    /\ now = 1
    /\ lastFrameTime = 0
    /\ pausePhysics = FALSE
    /\ pausedAtTime = NULL
    /\ pausedTimeOffset = 0
    /\ enableOrbSpawning = TRUE
    /\ enableOrbDespawning = TRUE
    /\ disableCollisions = FALSE
    /\ disableAvoidance = FALSE
    /\ isPageVisible = TRUE
    /\ burstTime = NULL
    /\ hasBurst = FALSE
    /\ mousePos = [present |-> FALSE, x |-> 0, y |-> 0]
    /\ animator = [isRunning |-> FALSE, startTime |-> NULL]
    /\ hasAnimated = FALSE
    /\ raf = NoRequests
    /\ inputs = 0
    /\ obs = Idle

\* Everything but the grid, the write count and the observation.
probeFixed ==
    << vpc, windowSize, orbs, clockVars, pauseVars, debugVars, isPageVisible, burstVars,
       mousePos, animVars >>

\* A write to the probed grid that ends in g.
ProbeWrite(g, observed) ==
    /\ inputs < MaxProbeOps
    /\ inputs' = inputs + 1
    /\ grid' = g
    /\ obs' = observed
    /\ UNCHANGED probeFixed

\* A read of the probed grid.
ProbeRead(observed) ==
    /\ obs' = observed
    /\ UNCHANGED << grid, inputs, probeFixed >>

ProbeSetCell(c, state) ==
    ProbeWrite(setCell(grid, c.x, c.y, c.layer, state),
               [op |-> "setCell", cell |-> c, state |-> state])

ProbeAddCellFlag(c, flag) ==
    ProbeWrite(addCellFlag(grid, c.x, c.y, c.layer, flag),
               [op |-> "addCellFlag", cell |-> c, flag |-> flag,
                before |-> getCell(grid, c.x, c.y, c.layer)])

\* before is the state the cell had before the addCellFlag this call
\* follows, if it follows one of the same cell and flag.
ProbeRemoveCellFlag(c, flag) ==
    ProbeWrite(removeCellFlag(grid, c.x, c.y, c.layer, flag),
               [op |-> "removeCellFlag", cell |-> c, flag |-> flag,
                before |-> IF obs.op = "addCellFlag" /\ obs.cell = c /\ obs.flag = flag
                           THEN obs.before ELSE getCell(grid, c.x, c.y, c.layer),
                afterAdd |-> obs.op = "addCellFlag" /\ obs.cell = c /\ obs.flag = flag])

ProbeMarkOrb(orb) ==
    ProbeWrite(markOrbCircular(grid, orb, vpc), [op |-> "markOrbCircular", orb |-> orb])

ProbeClearOrb(orb) ==
    ProbeWrite(clearOrbCircular(grid, orb, vpc), [op |-> "clearOrbCircular", orb |-> orb])

ProbeGetCell(c) ==
    ProbeRead([op |-> "getCell", cell |-> c, result |-> getCell(grid, c.x, c.y, c.layer)])

ProbeIsWall(c) ==
    ProbeRead([op |-> "isWall", cell |-> c, result |-> isWall(grid, c.x, c.y, c.layer)])

ProbeCanSpawn(p) ==
    ProbeRead([op |-> "canSpawn", cell |-> p.cell, size |-> p.size,
               result |-> canSpawn(CellMidX(p.cell), CellMidY(p.cell), CellMidZ(p.cell),
                                   p.size, grid, vpc)])

ProbeCheckMove(orb, deltaTime) ==
    ProbeRead([op |-> "checkMove", orb |-> orb, deltaTime |-> deltaTime,
               result |-> checkMove(orb, deltaTime, grid, vpc)])

ProbeNext ==
    \/ \E c \in ProbeCells : ProbeSetCell(c, CELL_FILLED)
    \/ \E c \in ProbeCells : \E flag \in {CELL_PROXIMITY, CELL_FILLED} :
          ProbeAddCellFlag(c, flag)
    \/ \E c \in ProbeCells : ProbeRemoveCellFlag(c, CELL_FILLED)
    \/ \E orb \in ProbeMarkOrbs : ProbeMarkOrb(orb)
    \/ \E orb \in ProbeMarkOrbs : ProbeClearOrb(orb)
    \/ \E c \in ProbeCells : ProbeGetCell(c)
    \/ \E c \in ProbeCells : ProbeIsWall(c)
    \/ \E p \in ProbeSpawns : ProbeCanSpawn(p)
    \/ \E orb \in ProbeMoveOrbs : ProbeCheckMove(orb, 1)

ProbeSpec == ProbeInit /\ [][ProbeNext]_vars

\* ------------------------------------------------------- wall scenario

FieldConfig == GridConfigOf(ViewCellsX, ViewCellsY, FieldLayers)
FieldVpc == ViewportCellsOf(ViewCellsX, ViewCellsY)

\* Pixel position (0.1 px) at offset off into column / row k of the grid.
ColumnPx(k, off) == (k - FieldVpc.startCellX) * CellSizeXPx + off
RowPx(k, off) == (k - FieldVpc.startCellY) * CellSizeYPx + off

\* The values every scenario starts from, the revealed field at rest at
\* wall time 1, apart from the orbs, the grid and the pointer.
RevealedField ==
    /\ windowSize = WindowSizeOf(ViewCellsX, ViewCellsY)
    /\ vpc = FieldVpc
    /\ now = 1
    /\ lastFrameTime = 1
    /\ pausePhysics = FALSE
    /\ pausedAtTime = NULL
    /\ pausedTimeOffset = 0
    /\ enableOrbSpawning = TRUE
    /\ enableOrbDespawning = TRUE
    /\ disableCollisions = FALSE
    /\ disableAvoidance = FALSE
    /\ isPageVisible = TRUE
    /\ burstTime = NULL
    /\ hasBurst = FALSE
    /\ animator = [isRunning |-> FALSE, startTime |-> 1]
    /\ hasAnimated = TRUE
    /\ raf = NoRequests
    /\ inputs = 0
    /\ obs = Idle

\* A manually placed size-1 orb on layer 0 travelling to the right in the
\* column next to the right border ring, in the middle row: off into its
\* cell, at speed vx, with wander turn turn.
WallOrbAt(off, vx, turn) ==
    MakeOrb(1, ColumnPx(FieldConfig.cellsX - 2, off),
            RowPx(FieldConfig.cellsY \div 2, CellSizeYPx \div 2), 0,
            vx, 0, 0, vx, 1, 1, INFINITE_LIFETIME, turn)

\* The pointer is away, or 20 px below the orb.
WallInit ==
    /\ RevealedField
    /\ \E off \in {100, 450} : \E vx \in {50, 100, BurstMinSpeed} : \E turn \in {-1, 0, 1} :
          /\ orbs = << WallOrbAt(off, vx, turn) >>
          /\ grid = markInitial(FreshGrid(FieldConfig), << WallOrbAt(off, vx, turn) >>,
                                FieldVpc)
          /\ mousePos \in { [present |-> FALSE, x |-> 0, y |-> 0],
                            [present |-> TRUE, x |-> WallOrbAt(off, vx, turn).pxX,
                             y |-> WallOrbAt(off, vx, turn).pxY + 200] }

WallScenarioNext ==
    \/ Tick
    \/ Sleep
    \/ PhysicsFrame

WallSpec == WallInit /\ [][WallScenarioNext]_vars

\* -------------------------------------------------- collision scenario

\* Two orbs of the same size on layer 0 facing each other along the X axis
\* or the Y axis around the middle of the viewport, gap apart (0.1 px),
\* with velocities vA and vB along that axis.
FacingPair(size, alongX, gap, vA, vB) ==
    IF alongX
    THEN << MakeOrb(1, ColumnPx(FieldConfig.cellsX \div 2, 0) - gap \div 2,
                    RowPx(FieldConfig.cellsY \div 2, 0), 0, vA, 0, 0, Abs(vA), size, 1,
                    INFINITE_LIFETIME, 0),
            MakeOrb(2, ColumnPx(FieldConfig.cellsX \div 2, 0) + gap \div 2,
                    RowPx(FieldConfig.cellsY \div 2, 0), 0, vB, 0, 0, Abs(vB), size, 1,
                    INFINITE_LIFETIME, 0) >>
    ELSE << MakeOrb(1, ColumnPx(FieldConfig.cellsX \div 2, 0),
                    RowPx(FieldConfig.cellsY \div 2, 0) - gap \div 2, 0, 0, vA, 0, Abs(vA),
                    size, 1, INFINITE_LIFETIME, 0),
            MakeOrb(2, ColumnPx(FieldConfig.cellsX \div 2, 0),
                    RowPx(FieldConfig.cellsY \div 2, 0) + gap \div 2, 0, 0, vB, 0, Abs(vB),
                    size, 1, INFINITE_LIFETIME, 0) >>

CollisionInit ==
    /\ RevealedField
    /\ mousePos = [present |-> FALSE, x |-> 0, y |-> 0]
    /\ \E size \in 1 .. 2 : \E alongX \in BOOLEAN : \E gap \in {300, 450} :
       \E vA \in {10, 100, BurstMinSpeed} : \E vB \in {-10, -100, -BurstMinSpeed} :
          /\ orbs = FacingPair(size, alongX, gap, vA, vB)
          /\ grid = markInitial(FreshGrid(FieldConfig),
                                FacingPair(size, alongX, gap, vA, vB), FieldVpc)

\* Phase 5.6 on its own: OrbOrbCollision.resolveCollisions on the orbs.
ResolveStep ==
    /\ inputs < MaxInputs
    /\ inputs' = inputs + 1
    /\ orbs' = resolveCollisions(orbs, vpc, [x |-> 1000, y |-> 0, z |-> 0])
    /\ obs' = [op |-> "resolveCollisions", before |-> orbs]
    /\ UNCHANGED << gridVars, clockVars, pauseVars, debugVars, isPageVisible, burstVars,
                    mousePos, animVars >>

CollisionNext ==
    \/ ResolveStep
    \/ Tick
    \/ PhysicsFrame

CollisionSpec == CollisionInit /\ [][CollisionNext]_vars

\* ------------------------------------------------- spawn-count scenario
\* The spawn-count arithmetic of phase 10 applied to real window sizes, live
\* counts and frame times; the field itself stays the small probed one.

\* Longest frame time applied, in ticks of 100 ms.
MaxFrameTicks == 2

\* Frames per second PhaseLifecycle assumes (assumedDeltaTime = 1 / 60).
AssumedFps == 60

\* spawnsThisFrame of PhaseLifecycle.execute, which takes no deltaTime:
\* expectedSpawns = spawnRate * assumedDeltaTime
\*                = num / (ReferenceScreenArea * targetCount * AssumedFps).
PhaseLifecycle_spawnsThisFrame(window, currentCount, extraSpawn) ==
    LET targetCount == TargetCount(window)
        deficit == targetCount - currentCount
        num == BaseSpawnRateAt4K * AreaScale(window).num * Min(deficit, targetCount)
        den == AreaScale(window).den * targetCount * AssumedFps
        guaranteedSpawns == num \div den
        extra == IF num % den # 0 /\ extraSpawn THEN 1 ELSE 0
    IN  IF deficit <= 0 THEN 0
        ELSE Min(guaranteedSpawns + extra, MaxSpawnsPerFrame)

\* Window sizes of the spawn-count scenario: 4K, full HD, HD and a small
\* one.
SpawnWindows ==
    { [width |-> 3840, height |-> 2160],
      [width |-> 1920, height |-> 1080],
      [width |-> 1280, height |-> 720],
      [width |-> 400, height |-> 300] }

\* Live counts applied for a window: none, one, half the target, one below
\* the target, the target.
LiveCounts(window) ==
    {0, 1, TargetCount(window) \div 2, TargetCount(window) - 1, TargetCount(window)}

SpawnCountInit ==
    /\ windowSize \in SpawnWindows
    /\ grid = FreshGrid(ProbeConfig)
    /\ vpc = ProbeVpc
    /\ orbs = << >>
    /\ now = 1
    /\ lastFrameTime = 0
    /\ pausePhysics = FALSE
    /\ pausedAtTime = NULL
    /\ pausedTimeOffset = 0
    /\ enableOrbSpawning = TRUE
    /\ enableOrbDespawning = TRUE
    /\ disableCollisions = FALSE
    /\ disableAvoidance = FALSE
    /\ isPageVisible = TRUE
    /\ burstTime = 0
    /\ hasBurst = TRUE
    /\ mousePos = [present |-> FALSE, x |-> 0, y |-> 0]
    /\ animator = [isRunning |-> FALSE, startTime |-> NULL]
    /\ hasAnimated = TRUE
    /\ raf = NoRequests
    /\ inputs = 0
    /\ obs = Idle

\* Everything but the observation.
spawnCountFixed ==
    << gridVars, windowSize, orbs, clockVars, pauseVars, debugVars, isPageVisible, burstVars,
       mousePos, animVars, inputs >>

\* Phase 10 of usePhysicsLoop.runPhysics / PhaseContinuousSpawn.execute up
\* to the call of spawnRandomOrbs, with currentCount live orbs.
RequestInRunPhysics ==
    \E currentCount \in LiveCounts(windowSize), deltaTime \in 1 .. MaxFrameTicks,
       extraSpawn \in BOOLEAN :
        /\ obs' = [ op |-> "spawnsThisFrame", impl |-> "runPhysics",
                    targetCount |-> TargetCount(windowSize),
                    currentCount |-> currentCount, deltaTime |-> deltaTime,
                    extraSpawn |-> extraSpawn,
                    requested |-> SpawnsThisFrame(windowSize, currentCount, deltaTime,
                                                  extraSpawn) ]
        /\ UNCHANGED spawnCountFixed

\* Phase 10 of PhaseLifecycle.execute up to the call of spawnRandomOrbs, in
\* a frame that took deltaTime.
RequestInPhaseLifecycle ==
    \E currentCount \in LiveCounts(windowSize), deltaTime \in 1 .. MaxFrameTicks,
       extraSpawn \in BOOLEAN :
        /\ obs' = [ op |-> "spawnsThisFrame", impl |-> "PhaseLifecycle",
                    targetCount |-> TargetCount(windowSize),
                    currentCount |-> currentCount, deltaTime |-> deltaTime,
                    extraSpawn |-> extraSpawn,
                    requested |-> PhaseLifecycle_spawnsThisFrame(windowSize, currentCount,
                                                                 extraSpawn) ]
        /\ UNCHANGED spawnCountFixed

SpawnCountNext ==
    \/ RequestInRunPhysics
    \/ RequestInPhaseLifecycle

SpawnCountSpec == SpawnCountInit /\ [][SpawnCountNext]_vars

\* ------------------------------------------------- spawn-batch scenario
\* spawnRandomOrbs with its retry loop written out, on the probed field with
\* one orb already alive.

\* burstConfig.maxRetries
MaxRetries == 20

\* Largest count requested from spawnRandomOrbs.
MaxBatch == 2

\* The retry loop of one particle: candidates[attempts + 1] is the position
\* getRandomPosition() returns after attempts failed attempts. Yields the
\* validated position, if any, and the number of candidates drawn.
RECURSIVE RetryLoop(_, _, _, _, _, _)
RetryLoop(candidates, layer, size, g, vpcv, attempts) ==
    IF ~(attempts < MaxRetries)
    THEN [found |-> FALSE, drawn |-> attempts]
    ELSE IF canSpawn(candidates[attempts + 1].x, candidates[attempts + 1].y, layer, size,
                     g, vpcv)
    THEN [found |-> TRUE, pos |-> candidates[attempts + 1], drawn |-> attempts + 1]
    ELSE RetryLoop(candidates, layer, size, g, vpcv, attempts + 1)

\* One iteration of the loop of spawnRandomOrbs on r = [orbs, grid,
\* newOrbs, attempts] for the draw d.
SpawnRandomOne(r, vpcv, wallNow, d) ==
    LET layer == getPreferredLayer(d.size, BurstMaxSize, r.grid.config.layers)
        spawnPos == RetryLoop(d.candidates, layer, d.size, r.grid, vpcv, 0)
        newOrb == MakeOrb(FreshId(r.orbs), spawnPos.pos.x, spawnPos.pos.y, layer,
                          d.vx, d.vy, 0, d.speed, d.size, wallNow, d.lifetimeMs,
                          d.wanderTurn)
    IN  IF ~spawnPos.found
        THEN [r EXCEPT !.attempts = Append(@, spawnPos)]
        ELSE [ orbs |-> Append(r.orbs, newOrb),
               grid |-> markOrbCircular(r.grid, newOrb, vpcv),
               newOrbs |-> r.newOrbs + 1,
               attempts |-> Append(r.attempts, spawnPos) ]

RECURSIVE SpawnRandomFrom(_, _, _, _, _, _)
SpawnRandomFrom(r, vpcv, wallNow, count, draws, i) ==
    IF ~(i < count) THEN r
    ELSE SpawnRandomFrom(SpawnRandomOne(r, vpcv, wallNow, draws[i + 1]), vpcv, wallNow,
                         count, draws, i + 1)

\* Returns the requested count.
M_spawnRandomOrbs(count, g, vpcv, orbList, wallNow, draws) ==
    LET r == SpawnRandomFrom([orbs |-> orbList, grid |-> g, newOrbs |-> 0,
                              attempts |-> << >>], vpcv, wallNow, count, draws, 0)
    IN  [orbs |-> r.orbs, grid |-> r.grid, returned |-> count, attempts |-> r.attempts]

\* spawnRandomOrbs(count, screenWidth, screenHeight, grid, vpc, orbsRef,
\* setOrbs) for the random draws: the orbs and the grid it leaves, the
\* number it returns and, per particle, the outcome of its retry loop.
spawnRandomOrbs(count, g, vpcv, orbList, wallNow, draws) ==
    LET r == SpawnRandomFrom([orbs |-> orbList, grid |-> g, newOrbs |-> 0,
                              attempts |-> << >>], vpcv, wallNow, count, draws, 0)
    IN  [orbs |-> r.orbs, grid |-> r.grid, returned |-> r.newOrbs, attempts |-> r.attempts]

\* Positions (0.1 px) inside [edgeMargin, size - edgeMargin] of the probed
\* window: where the live orb sits, and two more in other cells.
TakenPos == [x |-> 10 * EdgeMarginPx, y |-> 10 * EdgeMarginPx]
FreePositions ==
    { [x |-> 20 * EdgeMarginPx, y |-> 20 * EdgeMarginPx],
      [x |-> 20 * EdgeMarginPx, y |-> 10 * EdgeMarginPx] }

\* The orb alive before the batch.
TakenOrb ==
    MakeOrb(1, TakenPos.x, TakenPos.y,
            getPreferredLayer(1, BurstMaxSize, ProbeConfig.layers),
            0, 0, 0, 0, 1, 1, INFINITE_LIFETIME, 0)

\* Candidate streams of one particle: the taken position until draw
\* firstFree, a free position from then on; one draw more than the loop may
\* use.
CandidateStreams ==
    { [k \in 1 .. (MaxRetries + 1) |-> IF k < firstFree THEN TakenPos ELSE free] :
        firstFree \in {1, 2, MaxRetries, MaxRetries + 1}, free \in FreePositions }

BatchDraws ==
    { [ candidates |-> c, size |-> 1, vx |-> 0, vy |-> -BurstMinSpeed,
        speed |-> BurstMinSpeed, lifetimeMs |-> MinLifetimeMs, wanderTurn |-> 0 ] :
        c \in CandidateStreams }

SpawnBatchInit ==
    /\ windowSize = WindowSizeOf(ProbeViewCells, ProbeViewCells)
    /\ grid = markInitial(FreshGrid(ProbeConfig), << TakenOrb >>, ProbeVpc)
    /\ vpc = ProbeVpc
    /\ orbs = << TakenOrb >>
    /\ now = 1
    /\ lastFrameTime = 0
    /\ pausePhysics = FALSE
    /\ pausedAtTime = NULL
    /\ pausedTimeOffset = 0
    /\ enableOrbSpawning = TRUE
    /\ enableOrbDespawning = TRUE
    /\ disableCollisions = FALSE
    /\ disableAvoidance = FALSE
    /\ isPageVisible = TRUE
    /\ burstTime = 0
    /\ hasBurst = TRUE
    /\ mousePos = [present |-> FALSE, x |-> 0, y |-> 0]
    /\ animator = [isRunning |-> FALSE, startTime |-> NULL]
    /\ hasAnimated = TRUE
    /\ raf = NoRequests
    /\ inputs = 0
    /\ obs = Idle

\* One call of spawnRandomOrbs for count particles.
SpawnBatch ==
    /\ inputs < MaxInputs
    /\ inputs' = inputs + 1
    /\ \E count \in 0 .. MaxBatch : \E draws \in [1 .. count -> BatchDraws] :
          LET r == spawnRandomOrbs(count, grid, vpc, orbs, now, draws)
          IN  /\ orbs' = r.orbs
              /\ grid' = r.grid
              /\ obs' = [ op |-> "spawnRandomOrbs", count |-> count, draws |-> draws,
                          returned |-> r.returned, attempts |-> r.attempts ]
    /\ UNCHANGED << vpc, windowSize, clockVars, pauseVars, debugVars, isPageVisible,
                    burstVars, mousePos, animVars >>

SpawnBatchNext == SpawnBatch

SpawnBatchSpec == SpawnBatchInit /\ [][SpawnBatchNext]_vars

\* -------------------------------------------------- frame-loop scenario
\* useAnimationLoop with every requestAnimationFrame request followed on its
\* own: the effect is set up and cleaned up, and the host delivers the
\* requested callbacks one by one.

\* Number of times the effect is set up.
MaxInstances == 2

\* Last wall-clock tick of the scenario.
MaxLoopNow == 6

\* requestAnimationFrame(callback) at time t by the loop of effect run i.
Request(q, kind, i, t) ==
    [ q EXCEPT !.pending = @ \cup {[id |-> q.nextId, kind |-> kind, instance |-> i, at |-> t]},
               !.nextId = @ + 1 ]

\* cancelAnimationFrame(id)
Cancel(q, id) == [q EXCEPT !.pending = {cb \in @ : cb.id # id}]

\* GridAnimator.stop() of the animator of effect run i.
GridAnimator_stop(q, i) ==
    IF q.animators[i].animationId # NULL
    THEN Cancel([q EXCEPT !.animators[i].isRunning = FALSE,
                          !.animators[i].animationId = NULL],
                q.animators[i].animationId)
    ELSE [q EXCEPT !.animators[i].isRunning = FALSE]

\* The effect of useAnimationLoop runs (visible, gridConfig set): a new
\* GridAnimator is stored in animatorRef and started.
EffectRun ==
    /\ ~raf.active
    /\ raf.instance < MaxInstances
    /\ raf' = Request([raf EXCEPT !.instance = @ + 1, !.active = TRUE,
                                  !.animators = Append(@, [isRunning |-> TRUE,
                                                           startTime |-> NULL,
                                                           animationId |-> raf.nextId])],
                      "animate", raf.instance + 1, now)
    /\ animator' = [isRunning |-> TRUE, startTime |-> NULL]
    /\ obs' = Idle
    /\ UNCHANGED << gridVars, orbs, clockVars, pauseVars, debugVars, isPageVisible,
                    burstVars, mousePos, hasAnimated, inputs >>

\* Marks the effect as cleaned up and leaves the loop as it is.
M_EffectCleanup ==
    /\ raf.active
    /\ raf' = [raf EXCEPT !.active = FALSE,
                          !.stopped = Append(@, IF hasAnimated THEN "physics" ELSE "reveal")]
    /\ obs' = Idle
    /\ UNCHANGED << gridVars, orbs, clockVars, pauseVars, debugVars, isPageVisible,
                    burstVars, mousePos, animator, hasAnimated, inputs >>

\* The cleanup of the effect: animatorRef.current?.stop(), the physics-loop
\* request is cancelled, hasAnimatedRef is reset.
EffectCleanup ==
    /\ raf.active
    /\ LET stopped == GridAnimator_stop(raf, raf.instance)
           cancelled == IF stopped.loopId # NULL THEN Cancel(stopped, stopped.loopId)
                        ELSE stopped
       IN  raf' = [cancelled EXCEPT !.active = FALSE,
                                    !.stopped = Append(@, IF hasAnimated THEN "physics"
                                                          ELSE "reveal")]
    /\ animator' = [animator EXCEPT !.isRunning = FALSE]
    /\ hasAnimated' = FALSE
    /\ obs' = Idle
    /\ UNCHANGED << gridVars, orbs, clockVars, pauseVars, debugVars, isPageVisible,
                    burstVars, mousePos, inputs >>

\* The host delivers the requested GridAnimator.animate callback cb.
DeliverAnimate(cb) ==
    /\ cb \in raf.pending
    /\ cb.kind = "animate"
    /\ now > cb.at
    /\ LET q == [raf EXCEPT !.pending = @ \ {cb}]
           a == raf.animators[cb.instance]
           startTime == IF a.startTime = NULL THEN now ELSE a.startTime
           progress == Min(1000, ((now - startTime) * 1000) \div RevealDuration)
           dt == IF lastFrameTime # 0 THEN now - lastFrameTime ELSE 0
       IN  IF ~a.isRunning
           THEN /\ raf' = q
                /\ obs' = Idle
                /\ UNCHANGED << grid, orbs, lastFrameTime, animator, hasAnimated >>
           ELSE /\ lastFrameTime' = now
                /\ runPhysics(Eased(progress), dt)
                /\ animator' = (IF cb.instance = raf.instance
                                THEN [isRunning |-> progress < 1000, startTime |-> startTime]
                                ELSE animator)
                /\ IF progress < 1000
                   THEN /\ raf' = Request([q EXCEPT !.caller = cb.instance,
                                                    !.animators[cb.instance] =
                                                        [isRunning |-> TRUE,
                                                         startTime |-> startTime,
                                                         animationId |-> q.nextId]],
                                          "animate", cb.instance, now)
                        /\ hasAnimated' = hasAnimated
                   ELSE /\ raf' = Request([q EXCEPT !.caller = cb.instance,
                                                    !.animators[cb.instance] =
                                                        [isRunning |-> FALSE,
                                                         startTime |-> startTime,
                                                         animationId |-> a.animationId],
                                                    !.loopId = q.nextId],
                                          "physicsLoop", cb.instance, now)
                        /\ hasAnimated' = TRUE
    /\ UNCHANGED << vpc, windowSize, now, pauseVars, debugVars, isPageVisible,
                    burstVars, mousePos, inputs >>

\* The host delivers the requested physicsLoop callback cb.
DeliverPhysicsLoop(cb) ==
    /\ cb \in raf.pending
    /\ cb.kind = "physicsLoop"
    /\ now > cb.at
    /\ LET q == [raf EXCEPT !.pending = @ \ {cb}]
       IN  IF ~hasAnimated
           THEN /\ raf' = q
                /\ obs' = Idle
                /\ UNCHANGED << grid, orbs, lastFrameTime >>
           ELSE /\ lastFrameTime' = now
                /\ runPhysics(1000, now - lastFrameTime)
                /\ raf' = Request([q EXCEPT !.caller = cb.instance, !.loopId = q.nextId],
                                  "physicsLoop", cb.instance, now)
    /\ UNCHANGED << vpc, windowSize, now, pauseVars, debugVars, isPageVisible,
                    burstVars, mousePos, animator, hasAnimated, inputs >>

\* The clock advances by one tick.
LoopTick ==
    /\ now < MaxLoopNow
    /\ now' = now + 1
    /\ obs' = Idle
    /\ UNCHANGED << gridVars, orbs, lastFrameTime, pauseVars, debugVars, isPageVisible,
                    burstVars, mousePos, animVars, inputs >>

LoopInit ==
    /\ windowSize = WindowSizeOf(ViewCellsX, ViewCellsY)
    /\ grid = FreshGrid(FieldConfig)
    /\ vpc = FieldVpc
    /\ orbs = << >>
    /\ now = 1
    /\ lastFrameTime = 0
    /\ pausePhysics \in BOOLEAN
    /\ pausedAtTime = (IF pausePhysics THEN 1 ELSE NULL)
    /\ pausedTimeOffset = 0
    /\ enableOrbSpawning = TRUE
    /\ enableOrbDespawning = TRUE
    /\ disableCollisions = FALSE
    /\ disableAvoidance = FALSE
    /\ isPageVisible = TRUE
    /\ burstTime = NULL
    /\ hasBurst = FALSE
    /\ mousePos = [present |-> FALSE, x |-> 0, y |-> 0]
    /\ animator = [isRunning |-> FALSE, startTime |-> NULL]
    /\ hasAnimated = FALSE
    /\ raf = NoRequests
    /\ inputs = 0
    /\ obs = Idle

LoopNext ==
    \/ EffectRun
    \/ EffectCleanup
    \/ \E cb \in raf.pending : DeliverAnimate(cb)
    \/ \E cb \in raf.pending : DeliverPhysicsLoop(cb)
    \/ LoopTick

LoopSpec == LoopInit /\ [][LoopNext]_vars

\* -------------------------------------------------- burst-trigger scenario
\* useOrbBurst before the grid exists: the trigger effect runs and re-runs,
\* checkAndBurst polls through requestAnimationFrame until the grid is there.

\* Largest number of polling callbacks pending at once.
MaxPolls == 2

\* gridRef.current and viewportCellsRef.current before useGridInitialization
\* has set them (null).
NoGrid == [config |-> [cellsX |-> 0, cellsY |-> 0, layers |-> 0], cells |-> << >>]
NoVpc == [startCellX |-> NULL, startCellY |-> NULL]

\* Never returns early.
M_CheckAndBurst(q) ==
    IF grid # NoGrid /\ vpc # NoVpc /\ windowSize.width > 0
    THEN /\ hasBurst' = TRUE
         /\ \E draws \in [1 .. Min(BurstTargetCount, MaxOrbs - Len(orbs))
                          -> BurstDraws(windowSize)] :
               CommitSpawn(SpawnLoop(orbs, grid, vpc, now, draws, BurstMaxSize, 1))
         /\ burstTime' = now
         /\ obs' = [op |-> "spawnOrbBurst", at |-> now]
         /\ raf' = q
    ELSE /\ raf' = Request(q, "checkAndBurst", 0, now)
         /\ obs' = Idle
         /\ UNCHANGED << orbs, grid, burstVars >>

\* checkAndBurst() of useOrbBurst, with q the queue it is called on.
CheckAndBurst(q) ==
    IF hasBurst
    THEN /\ raf' = q
         /\ obs' = Idle
         /\ UNCHANGED << orbs, grid, burstVars >>
    ELSE IF grid # NoGrid /\ vpc # NoVpc /\ windowSize.width > 0
    THEN /\ hasBurst' = TRUE
         /\ \E draws \in [1 .. Min(BurstTargetCount, MaxOrbs - Len(orbs))
                          -> BurstDraws(windowSize)] :
               CommitSpawn(SpawnLoop(orbs, grid, vpc, now, draws, BurstMaxSize, 1))
         /\ burstTime' = now
         /\ obs' = [op |-> "spawnOrbBurst", at |-> now]
         /\ raf' = q
    ELSE /\ raf' = Request(q, "checkAndBurst", 0, now)
         /\ obs' = Idle
         /\ UNCHANGED << orbs, grid, burstVars >>

\* The trigger effect of useOrbBurst runs (triggerBurst is set), the first
\* time or again because one of its dependencies changed.
TriggerEffect ==
    /\ Cardinality(raf.pending) < MaxPolls
    /\ ~hasBurst
    /\ CheckAndBurst(raf)
    /\ UNCHANGED << vpc, windowSize, clockVars, pauseVars, debugVars, isPageVisible,
                    mousePos, animator, hasAnimated, inputs >>

\* The host delivers the requested checkAndBurst callback cb.
DeliverPoll(cb) ==
    /\ cb \in raf.pending
    /\ cb.kind = "checkAndBurst"
    /\ now > cb.at
    /\ CheckAndBurst([raf EXCEPT !.pending = @ \ {cb}])
    /\ UNCHANGED << vpc, windowSize, clockVars, pauseVars, debugVars, isPageVisible,
                    mousePos, animator, hasAnimated, inputs >>

\* Before the window has been measured: no window size, no grid.
TriggerInit ==
    /\ windowSize = [width |-> 0, height |-> 0]
    /\ grid = NoGrid
    /\ vpc = NoVpc
    /\ orbs = << >>
    /\ now = 1
    /\ lastFrameTime = 0
    /\ pausePhysics = FALSE
    /\ pausedAtTime = NULL
    /\ pausedTimeOffset = 0
    /\ enableOrbSpawning = TRUE
    /\ enableOrbDespawning = TRUE
    /\ disableCollisions = FALSE
    /\ disableAvoidance = FALSE
    /\ isPageVisible = TRUE
    /\ burstTime = NULL
    /\ hasBurst = FALSE
    /\ mousePos = [present |-> FALSE, x |-> 0, y |-> 0]
    /\ animator = [isRunning |-> FALSE, startTime |-> NULL]
    /\ hasAnimated = FALSE
    /\ raf = NoRequests
    /\ inputs = 0
    /\ obs = Idle

TriggerNext ==
    \/ TriggerEffect
    \/ \E cb \in raf.pending : DeliverPoll(cb)
    \/ \E v \in WindowViews : Resize(v)
    \/ LoopTick

TriggerSpec == TriggerInit /\ [][TriggerNext]_vars

\* ---------------------------------------------------- movement scenario
\* OrbMovement and OrbBehaviors.applyLayerAttraction applied to one orb, with
\* the finiteness of every number they compute followed.

\* The largest finite magnitude of the number format, scaled down so that
\* the speeds drawn below reach it: what is larger in magnitude is an
\* infinity. Squared speeds are counted in (0.1 px/s)^2.
MaxDouble == 1000000000

\* A finite speed (px/s) whose square is beyond MaxDouble.
HugeSpeed == 4000

\* Largest size given to getMaxSpeed.
MaxProbeSize == 40

\* A number: finite, an infinity with its sign, or NaN.
Num(n) == [kind |-> "finite", value |-> n]
Infinity(sign) == [kind |-> "infinity", value |-> sign]
NaN == [kind |-> "NaN", value |-> 0]

\* isFinite()
isFinite(a) == a.kind = "finite"

\* a * b
Times(a, b) ==
    IF a = NaN \/ b = NaN THEN NaN
    ELSE IF isFinite(a) /\ isFinite(b)
         THEN IF a.value = 0 \/ b.value = 0 THEN Num(0)
              ELSE IF Abs(a.value) > MaxDouble \div Abs(b.value)
                   THEN Infinity(Sign(a.value) * Sign(b.value))
                   ELSE Num(a.value * b.value)
         ELSE IF a.value = 0 \/ b.value = 0 THEN NaN
              ELSE Infinity(Sign(a.value) * Sign(b.value))

\* a + b
Plus(a, b) ==
    IF a = NaN \/ b = NaN THEN NaN
    ELSE IF isFinite(a) /\ isFinite(b)
         THEN IF Abs(a.value + b.value) > MaxDouble
              THEN Infinity(Sign(a.value + b.value))
              ELSE Num(a.value + b.value)
         ELSE IF isFinite(a) THEN b
         ELSE IF isFinite(b) THEN a
         ELSE IF a.value = b.value THEN a
         ELSE NaN

\* -a
Negate(a) == IF a = NaN THEN NaN ELSE [a EXCEPT !.value = -a.value]

\* Math.sqrt(a)
Sqrt(a) ==
    IF a = NaN \/ a.value < 0 THEN NaN
    ELSE IF isFinite(a) THEN Num(ISqrt(a.value))
    ELSE a

\* a / b rounded to the unit, for a divisor that is not zero
Over(a, b) ==
    IF a = NaN \/ b = NaN THEN NaN
    ELSE IF isFinite(a) /\ isFinite(b) THEN Num(RDiv(a.value, b.value))
    ELSE IF isFinite(a) THEN Num(0)
    ELSE IF isFinite(b) THEN Infinity(a.value * Sign(b.value))
    ELSE NaN

\* a > b; false when either is NaN
Greater(a, b) ==
    /\ a # NaN
    /\ b # NaN
    /\ IF isFinite(a) /\ isFinite(b) THEN a.value > b.value
       ELSE IF isFinite(a) THEN b.value < 0
       ELSE IF isFinite(b) THEN a.value > 0
       ELSE a.value > b.value

\* The numbers of an orb that the movement phases read and write.
Motion(orb) ==
    [ pxX |-> Num(orb.pxX), pxY |-> Num(orb.pxY), z |-> Num(orb.z),
      vx |-> Num(orb.vx), vy |-> Num(orb.vy), vz |-> Num(orb.vz),
      speed |-> Num(orb.speed) ]

\* OrbMovement.applySpeedLimit on the finite orb: what it leaves in the
\* orb's motion. currentSpeed is in 0.1 px/s. When it is finite the writes
\* are those of applySpeedLimit above; when the sum of squares is beyond the
\* finite range, currentSpeed is Infinity, passes both comparisons, and the
\* scale newSpeed / currentSpeed is written into vx, vy, vz unchecked.
SpeedLimitWrites(orb, baseMaxSpeed, minMaxSpeed, decelerationRatePct, deltaTime) ==
    LET vzScaled == Num(2 * orb.vz)
        currentSpeed ==
            Sqrt(Plus(Plus(Times(Num(10 * orb.vx), Num(10 * orb.vx)),
                           Times(Num(10 * orb.vy), Num(10 * orb.vy))),
                      Times(vzScaled, vzScaled)))
        maxSpeed == Num(getMaxSpeed(orb.size, baseMaxSpeed, minMaxSpeed))
        smoothFactor ==
            Num(10000 - PowScaled(100 - decelerationRatePct, 100, 6 * deltaTime))
        newSpeed ==
            Plus(currentSpeed, Times(Plus(maxSpeed, Negate(currentSpeed)), smoothFactor))
        scale == Over(newSpeed, currentSpeed)
        vx1 == Times(Num(orb.vx), scale)
        vy1 == Times(Num(orb.vy), scale)
    IN  IF isFinite(currentSpeed)
        THEN Motion(applySpeedLimit(orb, baseMaxSpeed, minMaxSpeed, decelerationRatePct,
                                    deltaTime))
        ELSE IF Greater(currentSpeed, maxSpeed)
             THEN [Motion(orb) EXCEPT !.vx = vx1,
                                      !.vy = vy1,
                                      !.vz = Times(Num(orb.vz), scale),
                                      !.speed = Sqrt(Plus(Times(vx1, vx1), Times(vy1, vy1)))]
             ELSE Motion(orb)

\* OrbBehaviors.applyLayerAttraction on a motion m of an orb of the given
\* size: vz += acceleration * deltaTime, then the cap, which a NaN passes.
LayerAttractionWrites(m, size, maxSize, totalLayers, strengthTenths, deltaTime) ==
    LET preferredLayer == Num(getPreferredLayer(size, maxSize, totalLayers))
        distanceToPreferred == Plus(preferredLayer, Negate(m.z))
        dvz == Over(Times(Times(distanceToPreferred, Num(strengthTenths)), Num(deltaTime)),
                    Num(1000))
        vz1 == Plus(m.vz, dvz)
    IN  [m EXCEPT !.vz = IF Greater(vz1, Num(MaxDriftSpeed)) THEN Num(MaxDriftSpeed)
                         ELSE IF Greater(Num(-MaxDriftSpeed), vz1) THEN Num(-MaxDriftSpeed)
                         ELSE vz1]

\* OrbMovement.updatePosition on a motion m: each axis is written only when
\* the new coordinate is finite.
PositionWrites(m, deltaTime) ==
    LET newX == Plus(m.pxX, Times(m.vx, Num(deltaTime)))
        newY == Plus(m.pxY, Times(m.vy, Num(deltaTime)))
        newZ == Plus(m.z, Times(m.vz, Num(deltaTime)))
    IN  IF ~ValidDeltaTime(deltaTime) THEN m
        ELSE [m EXCEPT !.pxX = IF isFinite(newX) THEN newX ELSE @,
                       !.pxY = IF isFinite(newY) THEN newY ELSE @,
                       !.z = IF isFinite(newZ) THEN newZ ELSE @]

\* Velocities (px/s) and sizes of the orb the phases are applied to.
MovementSpeeds == {0, 60, 300, HugeSpeed}
MovementSizes == {1, 2}

MovementOrbs ==
    { MakeOrb(1, TakenPos.x, TakenPos.y,
              getPreferredLayer(size, BurstMaxSize, ProbeConfig.layers),
              vx, vy, vz, ISqrt(vx * vx + vy * vy), size, 1, INFINITE_LIFETIME, 0) :
        vx \in MovementSpeeds, vy \in MovementSpeeds, vz \in {0, 20}, size \in MovementSizes }

MovementInit ==
    /\ windowSize = WindowSizeOf(ProbeViewCells, ProbeViewCells)
    /\ vpc = ProbeVpc
    /\ orbs \in { << o >> : o \in MovementOrbs }
    /\ grid = markInitial(FreshGrid(ProbeConfig), orbs, ProbeVpc)
    /\ now = 1
    /\ lastFrameTime = 0
    /\ pausePhysics = FALSE
    /\ pausedAtTime = NULL
    /\ pausedTimeOffset = 0
    /\ enableOrbSpawning = TRUE
    /\ enableOrbDespawning = TRUE
    /\ disableCollisions = FALSE
    /\ disableAvoidance = FALSE
    /\ isPageVisible = TRUE
    /\ burstTime = 0
    /\ hasBurst = TRUE
    /\ mousePos = [present |-> FALSE, x |-> 0, y |-> 0]
    /\ animator = [isRunning |-> FALSE, startTime |-> NULL]
    /\ hasAnimated = TRUE
    /\ raf = NoRequests
    /\ inputs = 0
    /\ obs = Idle

\* Phase 3 of runPhysics on the orb.
SpeedLimitPhase ==
    \E deltaTime \in 1 .. MaxFrameTicks :
        /\ obs' = [ op |-> "applySpeedLimit", deltaTime |-> deltaTime,
                    before |-> Motion(orbs[1]),
                    after |-> SpeedLimitWrites(orbs[1], BaseMaxSpeed, MinMaxSpeed,
                                               DecelerationRatePct, deltaTime) ]
        /\ UNCHANGED spawnCountFixed

\* Phase 5 of runPhysics on what phase 3 left.
LayerAttractionPhase ==
    /\ obs.op = "applySpeedLimit"
    /\ obs' = [ op |-> "applyLayerAttraction", deltaTime |-> obs.deltaTime,
                before |-> obs.after,
                after |-> LayerAttractionWrites(obs.after, orbs[1].size, SpawnMaxSize,
                                                grid.config.layers,
                                                AttractionStrengthTenths, obs.deltaTime) ]
    /\ UNCHANGED spawnCountFixed

\* The move of phase 6 of runPhysics on what phase 5 left.
UpdatePositionPhase ==
    /\ obs.op = "applyLayerAttraction"
    /\ obs' = [ op |-> "updatePosition", deltaTime |-> obs.deltaTime,
                before |-> obs.after,
                after |-> PositionWrites(obs.after, obs.deltaTime) ]
    /\ UNCHANGED spawnCountFixed

\* getMaxSpeed for a size and the next one, for a speed configuration.
MaxSpeedOfSize ==
    \E size \in 1 .. MaxProbeSize, baseMaxSpeed \in {BaseMaxSpeed, 2 * BaseMaxSpeed},
       minMaxSpeed \in {MinMaxSpeed, 2 * MinMaxSpeed} :
        /\ obs' = [ op |-> "getMaxSpeed", size |-> size,
                    baseMaxSpeed |-> baseMaxSpeed, minMaxSpeed |-> minMaxSpeed,
                    maxSpeed |-> getMaxSpeed(size, baseMaxSpeed, minMaxSpeed),
                    ofNextSize |-> getMaxSpeed(size + 1, baseMaxSpeed, minMaxSpeed) ]
        /\ UNCHANGED spawnCountFixed

MovementNext ==
    \/ SpeedLimitPhase
    \/ LayerAttractionPhase
    \/ UpdatePositionPhase
    \/ MaxSpeedOfSize

MovementSpec == MovementInit /\ [][MovementNext]_vars

\* ------------------------------------------------------ stuck scenario
\* One manually placed orb drifting in the viewport while the window is
\* resized: the rebuilt grid can put its border ring under the orb.

\* Orbs placed in the four cells of the viewport, of size 1 or 2, moving at
\* 60 px/s along either or both axes.
StuckOrbs ==
    { MakeOrb(1, x, y, 0, v[1], v[2], 0, ISqrt(v[1] * v[1] + v[2] * v[2]), size, 1,
              INFINITE_LIFETIME, 0) :
        x \in {CellSizeXPx \div 2, CellSizeXPx + CellSizeXPx \div 2},
        y \in {CellSizeYPx \div 2, CellSizeYPx + CellSizeYPx \div 2},
        v \in ({-60, 0, 60} \X {-60, 0, 60}) \ {<<0, 0>>}, size \in {1, 2} }

StuckInit ==
    /\ RevealedField
    /\ orbs \in { << o >> : o \in StuckOrbs }
    /\ grid = markInitial(FreshGrid(FieldConfig), orbs, FieldVpc)
    /\ mousePos = [present |-> FALSE, x |-> 0, y |-> 0]

StuckNext ==
    \/ Tick
    \/ Sleep
    \/ AnimatorFrame
    \/ PhysicsFrame
    \/ \E v \in WindowViews : Resize(v)

StuckSpec == StuckInit /\ [][StuckNext]_vars

\* ------------------------------------------------------ fast-orb scenario
\* One orb thrown by a burst towards the right border ring: the wall
\* scenario at the speeds of BurstConfig (400 to 1400 px/s for size 1).

BurstMaxSpeed == 1400

FastWallInit ==
    /\ RevealedField
    /\ \E off \in {100, 450} :
       \E vx \in {BurstMinSpeed, (BurstMinSpeed + BurstMaxSpeed) \div 2, BurstMaxSpeed} :
       \E turn \in {-1, 0, 1} :
          /\ orbs = << WallOrbAt(off, vx, turn) >>
          /\ grid = markInitial(FreshGrid(FieldConfig), << WallOrbAt(off, vx, turn) >>,
                                FieldVpc)
          /\ mousePos \in { [present |-> FALSE, x |-> 0, y |-> 0],
                            [present |-> TRUE, x |-> WallOrbAt(off, vx, turn).pxX,
                             y |-> WallOrbAt(off, vx, turn).pxY + 200] }

FastWallSpec == FastWallInit /\ [][WallScenarioNext]_vars

\* ------------------------------------------------- long-frame scenario
\* The spawn-count arithmetic of phase 10 in the first frame after the page
\* was away: requestAnimationFrame delivers no frame to a hidden tab, and
\* the loop takes deltaTime = now - lastFrameTime without a cap.

\* Longest frame time applied, in ticks of 100 ms.
MaxLongFrameTicks == 250

LongFrameTicks == {1, 10, 100, MaxLongFrameTicks \div 2, MaxLongFrameTicks}

\* Phase 10 of usePhysicsLoop.runPhysics / PhaseContinuousSpawn.execute up
\* to the call of spawnRandomOrbs, in a frame that took deltaTime.
RequestAfterLongFrame ==
    \E currentCount \in LiveCounts(windowSize), deltaTime \in LongFrameTicks,
       extraSpawn \in BOOLEAN :
        /\ obs' = [ op |-> "spawnsThisFrame", impl |-> "runPhysics",
                    targetCount |-> TargetCount(windowSize),
                    currentCount |-> currentCount, deltaTime |-> deltaTime,
                    extraSpawn |-> extraSpawn,
                    requested |-> SpawnsThisFrame(windowSize, currentCount, deltaTime,
                                                  extraSpawn) ]
        /\ UNCHANGED spawnCountFixed

LongFrameSpec == SpawnCountInit /\ [][RequestAfterLongFrame]_vars

\* ------------------------------------------------- pause-sync scenario
\* The pause scenario with both ways a pause change reaches
\* usePauseTimeTracking: the debug-context effect and the debugOptionChanged
\* custom event of the debug menu.

\* Most option events (of either kind) in a run.
MaxPauseEvents == 4

\* Options the debugOptionChanged events of the scenario carry.
DebugOptionKeys == { "pausePhysics", "disableCollisions" }

\* useDebugStateSync: the listener of debugOptionChanged events.
handleDebugOptionChange(key, value) ==
    LET wasPaused == pausePhysics
        isPaused == value
        tracked == handlePauseChange(wasPaused, isPaused, now, pausedAtTime, pausedTimeOffset)
    IN  /\ inputs < MaxPauseEvents
        /\ inputs' = inputs + 1
        /\ enableOrbSpawning' = (IF key = "enableOrbSpawning" THEN value ELSE enableOrbSpawning)
        /\ enableOrbDespawning' =
              (IF key = "enableOrbDespawning" THEN value ELSE enableOrbDespawning)
        /\ disableCollisions' = (IF key = "disableCollisions" THEN value ELSE disableCollisions)
        /\ disableAvoidance' = (IF key = "disableAvoidance" THEN value ELSE disableAvoidance)
        /\ pausePhysics' = (IF key = "pausePhysics" THEN isPaused ELSE pausePhysics)
        /\ pausedAtTime' =
              (IF key = "pausePhysics" THEN tracked.pausedAtTime ELSE pausedAtTime)
        /\ pausedTimeOffset' =
              (IF key = "pausePhysics" THEN tracked.pausedTimeOffset ELSE pausedTimeOffset)
        /\ obs' = [op |-> "debugOptionChanged", key |-> key, value |-> value,
                   wasPaused |-> wasPaused]
        /\ UNCHANGED << gridVars, orbs, clockVars, isPageVisible, burstVars, mousePos,
                        animVars >>

PauseSyncNext ==
    \/ Tick
    \/ Sleep
    \/ AnimatorFrame
    \/ PhysicsFrame
    \/ \E state \in DebugStates : SyncDebugState(state)
    \/ \E key \in DebugOptionKeys, value \in BOOLEAN : handleDebugOptionChange(key, value)

PauseSyncSpec == PauseInit /\ [][PauseSyncNext]_vars

\* ------------------------------------------------- cell-index scenario
\* The two pixel-to-cell conversions of the field applied to the same pixel
\* coordinates, left of and above the viewport origin included (the grid
\* extends one viewport beyond it, so orbs do have negative coordinates).

\* Largest pixel coordinate converted, in 0.1 px, on either side of 0.
MaxProbePx == 600

\* vpc.startCell + Math.floor(adjusted / vpc.cellSizePx): the cell under
\* the pointer.
PointerCell(p, cellSizePx, startCell) == startCell + (p \div cellSizePx)

CellIndexInit ==
    /\ RevealedField
    /\ orbs = << >>
    /\ grid = FreshGrid(FieldConfig)
    /\ mousePos = [present |-> FALSE, x |-> 0, y |-> 0]

\* Both conversions of the coordinate p along the x or the y axis.
ConvertPixel ==
    \E p \in (0 - MaxProbePx) .. MaxProbePx, axis \in {"x", "y"} :
        LET cellSizePx == IF axis = "x" THEN vpc.cellSizeXPx ELSE vpc.cellSizeYPx
            startCell == IF axis = "x" THEN vpc.startCellX ELSE vpc.startCellY
        IN  /\ obs' = [ op |-> "cellIndex", axis |-> axis, p |-> p,
                        cellSizePx |-> cellSizePx, startCell |-> startCell,
                        orbCell |-> CellIndex(p, cellSizePx, startCell),
                        pointerCell |-> PointerCell(p, cellSizePx, startCell) ]
            /\ UNCHANGED spawnCountFixed

CellIndexSpec == CellIndexInit /\ [][ConvertPixel]_vars

\* ---------------------------------------------------------------- claims

\* The dynamic flags of g2 are exactly those the orbs of orbList stamp
\* (filled within radius size - 1 of an orb's centre cell, proximity in the
\* shell up to the avoidance radius), and g2 has the border flags of g.
Remarked(g2, g, orbList, vpcv) ==
    /\ g2.config = g.config
    /\ \A i \in DOMAIN g.cells :
          /\ hasCellFlag(g2.cells[i], CELL_BORDER) = hasCellFlag(g.cells[i], CELL_BORDER)
          /\ hasCellFlag(g2.cells[i], CELL_FILLED) =
                (\E k \in 1 .. Len(orbList) :
                    IndexDistSq(i, g.config.cellsX, g.config.cellsY,
                                OrbCellX(orbList[k], vpcv), OrbCellY(orbList[k], vpcv),
                                RoundLayer(orbList[k].z))
                    <= (orbList[k].size - 1) * (orbList[k].size - 1))
          /\ hasCellFlag(g2.cells[i], CELL_PROXIMITY) =
                (\E k \in 1 .. Len(orbList) :
                    /\ IndexDistSq(i, g.config.cellsX, g.config.cellsY,
                                   OrbCellX(orbList[k], vpcv), OrbCellY(orbList[k], vpcv),
                                   RoundLayer(orbList[k].z))
                       > (orbList[k].size - 1) * (orbList[k].size - 1)
                    /\ IndexDistSq(i, g.config.cellsX, g.config.cellsY,
                                   OrbCellX(orbList[k], vpcv), OrbCellY(orbList[k], vpcv),
                                   RoundLayer(orbList[k].z))
                       <= AvoidanceRadius(orbList[k].size) * AvoidanceRadius(orbList[k].size))

\* C1 as stated: in every frame with reveal progress below 1 or with the
\* pause flag set, the frame re-marks the dynamic flags of the grid from the
\* orb positions and leaves the orbs as they were.
C1_RemarkWheneverNotRunning ==
    [][ (obs'.op = "frame" /\ (obs'.easedProgress < 1000 \/ pausePhysics))
        => (Remarked(grid', grid, orbs, vpc) /\ orbs' = orbs) ]_vars

\* C1: a frame with reveal progress below 1 changes neither the grid nor
\* the orbs; a frame with the reveal complete and the pause flag set
\* re-marks the dynamic flags of the grid from the orb positions and leaves
\* every orb as it was (no movement, expiration or spawn).
C1_FrameEffect ==
    [][ obs'.op = "frame"
        => /\ obs'.easedProgress < 1000 => (grid' = grid /\ orbs' = orbs)
           /\ (obs'.easedProgress >= 1000 /\ pausePhysics)
              => (Remarked(grid', grid, orbs, vpc) /\ orbs' = orbs) ]_vars

\* A paused frame has run on a field with a moving orb: the orb is still
\* there, and the grid carries its mark.
C1_Witness ==
    /\ obs.op = "frame"
    /\ obs.easedProgress >= 1000
    /\ pausePhysics
    /\ \E k \in 1 .. Len(orbs) : orbs[k].vx # 0
    /\ \E i \in DOMAIN grid.cells : hasCellFlag(grid.cells[i], CELL_FILLED)

\* C2: effective time stands still while the pause flag is set, is the same
\* right after a pause or a resume as right before it, and otherwise
\* advances with the wall clock, so a pause of wall-clock length T followed
\* by a resume adds nothing to effective time; the effective-time age of
\* every orb alive across the step changes by the same amount, never by T.
C2_PauseExcluded ==
    [][ /\ EffectiveTime' - EffectiveTime = (IF pausePhysics THEN 0 ELSE now' - now)
        /\ \A k \in 1 .. Len(orbs) : \A j \in 1 .. Len(orbs') :
              orbs'[j].id = orbs[k].id /\ orbs'[j].createdAt = orbs[k].createdAt
              => (EffectiveTime' - orbs'[j].createdAt) - (EffectiveTime - orbs[k].createdAt)
                 = (IF pausePhysics THEN 0 ELSE now' - now) ]_vars

\* The field was paused across the sleep of the page and resumed: the
\* whole sleep is excluded from effective time, and a burst orb whose
\* wall-clock age is past its lifetime is alive in a running frame.
C2_Witness ==
    /\ ~pausePhysics
    /\ pausedTimeOffset >= SleepTicks
    /\ obs.op = "frame"
    /\ obs.easedProgress >= 1000
    /\ \E k \in 1 .. Len(orbs) :
          /\ orbs[k].lifetimeMs = MinLifetimeMs
          /\ now - orbs[k].createdAt > orbs[k].lifetimeMs

\* C3: a running frame at effective time t with despawning enabled keeps,
\* in their order, exactly the orbs with t - createdAt <= lifetimeMs or with
\* infinite lifetime, and with despawning disabled keeps every orb; the
\* orbs after them are the ones the frame spawned.
C3_ExpirationExact ==
    [][ (obs'.op = "frame" /\ obs'.easedProgress >= 1000 /\ ~pausePhysics)
        => LET Keeps(o) == \/ ~enableOrbDespawning
                           \/ o.lifetimeMs = INFINITE_LIFETIME
                           \/ EffectiveTime - o.createdAt <= o.lifetimeMs
               kept == SelectSeq(orbs, Keeps)
           IN  /\ Len(orbs') >= Len(kept)
               /\ \A k \in 1 .. Len(kept) :
                     /\ orbs'[k].id = kept[k].id
                     /\ orbs'[k].createdAt = kept[k].createdAt
                     /\ orbs'[k].lifetimeMs = kept[k].lifetimeMs
               /\ \A k \in (Len(kept) + 1) .. Len(orbs') : orbs'[k].createdAt = now ]_vars

\* After the burst as the only input, a running frame has removed the
\* short-lived burst orb and kept the long-lived one.
C3_Witness ==
    /\ obs.op = "frame"
    /\ obs.easedProgress >= 1000
    /\ ~pausePhysics
    /\ enableOrbDespawning
    /\ hasBurst
    /\ inputs = 1
    /\ Len(orbs) = 1
    /\ orbs[1].id = 2
    /\ orbs[1].lifetimeMs = MaxLifetimeMs

\* C4: the outermost ring of every layer carries the border flag in every
\* state, and no step on a grid clears a border flag of it.
C4_BorderKept ==
    [][ /\ \A i \in DOMAIN grid'.cells :
              IsRingCell(grid'.config, i % grid'.config.cellsX,
                         (i \div grid'.config.cellsX) % grid'.config.cellsY)
              => hasCellFlag(grid'.cells[i], CELL_BORDER)
        /\ grid'.config = grid.config
           => \A i \in DOMAIN grid.cells :
                 hasCellFlag(grid.cells[i], CELL_BORDER)
                 => hasCellFlag(grid'.cells[i], CELL_BORDER) ]_vars

\* A running frame has left an orb's avoidance zone on a border cell.
C4_Witness ==
    /\ obs.op = "frame"
    /\ obs.easedProgress >= 1000
    /\ \E i \in DOMAIN grid.cells :
          /\ hasCellFlag(grid.cells[i], CELL_BORDER)
          /\ hasCellFlag(grid.cells[i], CELL_PROXIMITY)

\* The flags of the cell at (x, y, layer) of g, empty outside its dimensions.
FlagsAt(g, x, y, layer) ==
    IF /\ 0 <= x /\ x < g.config.cellsX
       /\ 0 <= y /\ y < g.config.cellsY
       /\ 0 <= layer /\ layer < g.config.layers
    THEN g.cells[layer * g.config.cellsX * g.config.cellsY + y * g.config.cellsX + x]
    ELSE 0

\* (x, y, layer) names no cell of g.
OutOfBounds(g, c) ==
    \/ c.x < 0 \/ c.x >= g.config.cellsX
    \/ c.y < 0 \/ c.y >= g.config.cellsY
    \/ c.layer < 0 \/ c.layer >= g.config.layers

\* Bit b (1, 2 or 4) of a cell state.
Bit(state, b) == (state \div b) % 2

\* C5: canSpawn returns false if and only if some cell at an integer offset
\* of squared length at most (size - 1)^2 from the candidate's centre cell
\* carries the filled or the border flag; proximity alone and cells farther
\* than size - 1 do not block.
C5_CanSpawnSphere ==
    obs.op = "canSpawn"
    => ( (obs.result = FALSE)
         <=> \E dx \in -(obs.size - 1) .. (obs.size - 1) :
             \E dy \in -(obs.size - 1) .. (obs.size - 1) :
             \E dz \in -(obs.size - 1) .. (obs.size - 1) :
                /\ dx * dx + dy * dy + dz * dz <= (obs.size - 1) * (obs.size - 1)
                /\ \/ Bit(FlagsAt(grid, obs.cell.x + dx, obs.cell.y + dy,
                                  obs.cell.layer + dz), 2) = 1
                   \/ Bit(FlagsAt(grid, obs.cell.x + dx, obs.cell.y + dy,
                                  obs.cell.layer + dz), 4) = 1 )

\* A size-3 candidate was allowed although a proximity-only cell lies next
\* to its centre and a filled cell lies at distance sqrt(5) from it.
C5_Witness ==
    /\ obs.op = "canSpawn"
    /\ obs.size = 3
    /\ obs.result = TRUE
    /\ FlagsAt(grid, obs.cell.x + 1, obs.cell.y, obs.cell.layer) = 1
    /\ Bit(FlagsAt(grid, obs.cell.x + 2, obs.cell.y + 1, obs.cell.layer), 2) = 1

\* C6: for coordinates outside the grid's dimensions getCell returns 0,
\* isWall returns false, and setCell, addCellFlag and removeCellFlag leave
\* the whole grid unchanged.
C6_OutOfBounds ==
    [][ /\ (obs'.op \in {"setCell", "addCellFlag", "removeCellFlag"}
            /\ OutOfBounds(grid, obs'.cell))
           => grid' = grid
        /\ (obs'.op = "getCell" /\ OutOfBounds(grid, obs'.cell)) => obs'.result = 0
        /\ (obs'.op = "isWall" /\ OutOfBounds(grid, obs'.cell)) => obs'.result = FALSE ]_vars

\* getCell was called with x = -1 on a row whose linear index falls on a
\* border cell of the row before, and returned 0.
C6_Witness ==
    /\ obs.op = "getCell"
    /\ obs.cell.x = -1
    /\ obs.result = 0
    /\ Bit(FlagsAt(grid, grid.config.cellsX - 1, obs.cell.y - 1, obs.cell.layer), 4) = 1

\* C7: removing the filled flag from a cell right after adding it leaves
\* the border and proximity flags of the cell as they were before the add,
\* and the filled flag clear; marking an orb adds and clearing an orb
\* removes the filled flag on the cells of its body without changing their
\* other flags, and neither changes a border flag anywhere.
C7_FlagIndependence ==
    [][ /\ (obs'.op = "removeCellFlag" /\ obs'.flag = 2 /\ obs'.afterAdd
            /\ ~OutOfBounds(grid, obs'.cell))
           => /\ Bit(FlagsAt(grid', obs'.cell.x, obs'.cell.y, obs'.cell.layer), 4)
                 = Bit(obs'.before, 4)
              /\ Bit(FlagsAt(grid', obs'.cell.x, obs'.cell.y, obs'.cell.layer), 1)
                 = Bit(obs'.before, 1)
              /\ Bit(FlagsAt(grid', obs'.cell.x, obs'.cell.y, obs'.cell.layer), 2) = 0
        /\ obs'.op \in {"markOrbCircular", "clearOrbCircular"}
           => \A i \in DOMAIN grid.cells :
                 /\ Bit(grid'.cells[i], 4) = Bit(grid.cells[i], 4)
                 /\ IndexDistSq(i, grid.config.cellsX, grid.config.cellsY,
                                OrbCellX(obs'.orb, vpc), OrbCellY(obs'.orb, vpc),
                                RoundLayer(obs'.orb.z))
                    <= (obs'.orb.size - 1) * (obs'.orb.size - 1)
                    => /\ Bit(grid'.cells[i], 1) = Bit(grid.cells[i], 1)
                       /\ Bit(grid'.cells[i], 2)
                          = (IF obs'.op = "markOrbCircular" THEN 1 ELSE 0) ]_vars

\* The filled flag was added to and then removed from a cell of the border
\* ring, which carries the border flag and nothing else afterwards.
C7_Witness ==
    /\ obs.op = "removeCellFlag"
    /\ obs.flag = 2
    /\ obs.afterAdd
    /\ Bit(obs.before, 4) = 1
    /\ FlagsAt(grid, obs.cell.x, obs.cell.y, obs.cell.layer) = 4

\* The grid g with every filled and proximity flag removed.
BorderOnly(g) ==
    [ config |-> g.config,
      cells |-> [i \in DOMAIN g.cells |-> 4 * Bit(g.cells[i], 4)] ]

\* C8: the result of checkMove is the one the grid gives with every filled
\* and proximity flag removed, so two grids with the same border flags give
\* the same reflectX, reflectY and reflectZ.
C8_OnlyBorderReflects ==
    obs.op = "checkMove"
    => obs.result = checkMove(obs.orb, obs.deltaTime, BorderOnly(grid), vpc)

\* An orb moved into a filled cell that is no border cell, and no axis was
\* reflected.
C8_Witness ==
    /\ obs.op = "checkMove"
    /\ obs.orb.size = 1
    /\ FlagsAt(grid, OrbCellX(obs.orb, vpc) + 1, OrbCellY(obs.orb, vpc),
               RoundLayer(obs.orb.z)) = 2
    /\ obs.orb.vx * obs.deltaTime = CellSizeXPx
    /\ ~obs.result.blocked

\* The preconditions of C9 on the orb o in the current state: a single
\* size-1 orb with purely rightward velocity whose cell has a border cell
\* immediately to its right.
RightwardAtBorder(o) ==
    /\ Len(orbs) = 1
    /\ o.size = 1
    /\ o.vx > 0 /\ o.vy = 0
    /\ Bit(FlagsAt(grid, OrbCellX(o, vpc), OrbCellY(o, vpc), RoundLayer(o.z)), 4) = 0
    /\ Bit(FlagsAt(grid, OrbCellX(o, vpc) + 1, OrbCellY(o, vpc), RoundLayer(o.z)), 4) = 1

\* C9 as stated: for a size-1 orb with a border cell immediately to the
\* right of its cell and a purely rightward velocity, a physics tick's wall
\* check returns reflectX = true and reflectY = false, and after the tick
\* vx has flipped sign while vy is unchanged.
C9_AlwaysReflectsX ==
    [][ (obs'.op = "frame" /\ obs'.easedProgress >= 1000 /\ ~pausePhysics
         /\ RightwardAtBorder(orbs[1]))
        => /\ obs'.results[1].reflectX
           /\ ~obs'.results[1].reflectY
           /\ orbs'[1].vx < 0
           /\ orbs'[1].vy = orbs[1].vy ]_vars

\* C9: if in addition the X step vx * deltaTime of the tick ends in that
\* border cell, the orb's speed is within its speed limit, its wander turn
\* is negligible and no pointer repels it, the wall check returns
\* reflectX = true and reflectY = false, and the tick leaves vx negated and
\* vy unchanged.
C9_ReflectsXWhenReaching ==
    [][ (obs'.op = "frame" /\ obs'.easedProgress >= 1000 /\ ~pausePhysics
         /\ RightwardAtBorder(orbs[1])
         /\ CellIndex(orbs[1].pxX + orbs[1].vx * obs'.deltaTime, vpc.cellSizeXPx,
                      vpc.startCellX) = OrbCellX(orbs[1], vpc) + 1
         /\ orbs[1].vz = 0
         /\ orbs[1].vx <= BaseMaxSpeed
         /\ orbs[1].wanderTurn = 0
         /\ ~mousePos.present)
        => /\ obs'.results[1].reflectX
           /\ ~obs'.results[1].reflectY
           /\ orbs'[1].vx = -orbs[1].vx
           /\ orbs'[1].vy = orbs[1].vy ]_vars

\* A tick has reflected a non-wandering orb off the right border: it now
\* travels to the left with vy = 0, one step away from where it was.
C9_Witness ==
    /\ obs.op = "frame"
    /\ Len(obs.results) = 1
    /\ obs.results[1].reflectX
    /\ ~obs.results[1].reflectY
    /\ Len(orbs) = 1
    /\ orbs[1].wanderTurn = 0
    /\ ~mousePos.present
    /\ orbs[1].vx < 0
    /\ orbs[1].vy = 0

\* C10 as stated: when resolveCollisions handles two touching orbs of equal
\* size that approach each other head-on along one axis, the relative
\* velocity along the collision normal afterwards has the opposite sign and
\* 0.8 times the magnitude (to within 1 px/s).
C10_RestitutionReverses ==
    [][ (obs'.op = "resolveCollisions"
         /\ Len(orbs) = 2
         /\ orbs[1].size = orbs[2].size
         /\ PairGeometry(orbs[1], orbs[2], vpc, [x |-> 1000, y |-> 0, z |-> 0]).touching
         /\ NormalRelVel(orbs[1], orbs[2],
                         PairGeometry(orbs[1], orbs[2], vpc,
                                      [x |-> 1000, y |-> 0, z |-> 0]).n) > 0)
        => LET n == PairGeometry(orbs[1], orbs[2], vpc, [x |-> 1000, y |-> 0, z |-> 0]).n
               before == NormalRelVel(orbs[1], orbs[2], n)
               after == NormalRelVel(orbs'[1], orbs'[2], n)
           IN  /\ after < 0
               /\ Abs(10 * after + 8 * before) <= 10000 ]_vars

\* What resolveCollisions leaves in that case: the pair still approaches,
\* at 0.2 times the relative normal velocity (to within 1 px/s).
C10_ImpulseDampsOnly ==
    [][ (obs'.op = "resolveCollisions"
         /\ Len(orbs) = 2
         /\ orbs[1].size = orbs[2].size
         /\ PairGeometry(orbs[1], orbs[2], vpc, [x |-> 1000, y |-> 0, z |-> 0]).touching
         /\ NormalRelVel(orbs[1], orbs[2],
                         PairGeometry(orbs[1], orbs[2], vpc,
                                      [x |-> 1000, y |-> 0, z |-> 0]).n) > 0)
        => LET n == PairGeometry(orbs[1], orbs[2], vpc, [x |-> 1000, y |-> 0, z |-> 0]).n
               before == NormalRelVel(orbs[1], orbs[2], n)
               after == NormalRelVel(orbs'[1], orbs'[2], n)
           IN  /\ after > 0
               /\ Abs(10 * after - 2 * before) <= 10000 ]_vars

\* C11 as stated: when the live count is below the target, the number of
\* orbs requested in a frame is min(maxSpawnsPerFrame, floor(rate * dt) + b)
\* with rate = baseSpawnRateAt4K * areaScale * min(1, deficit / target), dt
\* the time that frame took, and b in {0, 1}, b = 1 only when rate * dt has a
\* fractional part.
C11_RequestedFromFrameTime ==
    (obs.op = "spawnsThisFrame" /\ obs.currentCount < TargetCount(windowSize))
    => LET target == TargetCount(windowSize)
           deficit == target - obs.currentCount
           \* rate * dt = num / den, dt = deltaTime / 10 s; the window sides are
           \* multiples of 80 and 60 px, so areas are counted in 4800 px^2
           num == BaseSpawnRateAt4K * (windowSize.width \div 80) * (windowSize.height \div 60)
                  * Min(deficit, target) * obs.deltaTime
           den == (ReferenceScreenArea \div 4800) * target * 10
       IN  \E b \in {0, 1} :
               /\ b = 1 => num % den # 0
               /\ obs.requested = Min(MaxSpawnsPerFrame, (num \div den) + b)

\* What phase 10 of runPhysics requests follows the frame time.
C11_RunPhysicsFollowsFrameTime ==
    (obs.op = "spawnsThisFrame" /\ obs.impl = "runPhysics"
     /\ obs.currentCount < TargetCount(windowSize))
    => LET target == TargetCount(windowSize)
           num == BaseSpawnRateAt4K * (windowSize.width \div 80) * (windowSize.height \div 60)
                  * Min(target - obs.currentCount, target) * obs.deltaTime
           den == (ReferenceScreenArea \div 4800) * target * 10
       IN  obs.requested = Min(MaxSpawnsPerFrame,
                               (num \div den)
                               + (IF obs.extraSpawn /\ num % den # 0 THEN 1 ELSE 0))

\* The orbs of next that were not among the orbs of prev (an orb is known
\* by its id and its creation time).
NewOrbs(prev, next) ==
    { k \in 1 .. Len(next) :
        \A j \in 1 .. Len(prev) :
            prev[j].id # next[k].id \/ prev[j].createdAt # next[k].createdAt }

\* C12: a frame that runs before delayAfterBurstMs has elapsed since the
\* burst (or before any burst), or while the page is not visible, adds no
\* orb.
C12_NoSpawnBeforeDelayOrHidden ==
    [][ (obs'.op = "frame"
         /\ (burstTime = NULL \/ now - burstTime <= DelayAfterBurstMs \/ ~isPageVisible))
        => NewOrbs(orbs, orbs') = {} ]_vars

\* A running frame has ended on a hidden page, later than the delay after
\* the burst, with spawning enabled and room for more orbs: everything but
\* the visibility allowed a spawn.
C12_Witness ==
    /\ obs.op = "frame"
    /\ obs.easedProgress >= 1000
    /\ burstTime # NULL
    /\ now - burstTime > DelayAfterBurstMs
    /\ ~isPageVisible
    /\ ~pausePhysics
    /\ enableOrbSpawning
    /\ Len(orbs) < MaxOrbs
    /\ lastFrameTime = now

\* C13: the target count the continuous spawner works with is
\* max(minOrbCount, round(targetOrbCountAt4K * screenArea / referenceScreenArea)),
\* which is 150 for a 1920x1080 window and 50 for a 400x300 window.
C13_TargetCount ==
    obs.op = "spawnsThisFrame"
    => LET \* areas in units of 4800 px^2 (window sides are multiples of 80 and 60 px)
           screenArea == (windowSize.width \div 80) * (windowSize.height \div 60)
           referenceArea == (3840 \div 80) * (2160 \div 60)
           \* round(x) = floor(x + 1/2)
           scaled == (2 * 600 * screenArea + referenceArea) \div (2 * referenceArea)
       IN  /\ obs.targetCount = (IF scaled > 50 THEN scaled ELSE 50)
           /\ windowSize = [width |-> 1920, height |-> 1080] => obs.targetCount = 150
           /\ windowSize = [width |-> 400, height |-> 300] => obs.targetCount = 50

\* The spawner has computed its target for the 400x300 window, whose scaled
\* count (9) is below minOrbCount.
C13_Witness ==
    /\ obs.op = "spawnsThisFrame"
    /\ windowSize = [width |-> 400, height |-> 300]
    /\ obs.targetCount = MinOrbCount

C15_StoppedLoopNeverCalls ==
    [][ /\ obs'.op = "frame" => (raf.active /\ raf'.caller = raf.instance)
        /\ \A cb \in raf'.pending : raf'.active /\ cb.instance = raf'.instance ]_vars

\* The first loop was stopped while in its steady physics loop, the second
\* one during its reveal; since the last frame the clock has advanced and
\* nothing is pending.
C15_Witness ==
    /\ raf.stopped = << "physics", "reveal" >>
    /\ raf.caller = 2
    /\ raf.pending = {}
    /\ now > lastFrameTime + 1

\* C16: the burst is one-shot. spawnOrbBurst is called only while no burst
\* has happened, the call marks the burst as done and sets the burst time,
\* and neither is ever undone or set again - however often the trigger
\* effect re-runs and however many polling callbacks are pending.
C16_BurstAtMostOnce ==
    [][ /\ obs'.op = "spawnOrbBurst"
           => (~hasBurst /\ burstTime = NULL /\ hasBurst' /\ burstTime' # NULL)
        /\ hasBurst => (hasBurst' /\ obs'.op # "spawnOrbBurst")
        /\ burstTime # NULL => burstTime' = burstTime
        /\ burstTime' # burstTime => obs'.op = "spawnOrbBurst" ]_vars

\* The burst has just happened, from one of two polling chains: the
\* callback of the other chain is still pending.
C16_Witness ==
    /\ obs.op = "spawnOrbBurst"
    /\ hasBurst
    /\ burstTime = now
    /\ Len(orbs) > 0
    /\ \E cb \in raf.pending : cb.kind = "checkAndBurst"

\* Phases 9 and 10 in the order of C17 on the outcome of phases 7 and 8:
\* expiration on the re-marked grid, then continuous respawn.
C17_ExpireThenSpawn(unstuck, marked, extraSpawn, d, dt) ==
    ContinuousSpawn(PhaseExpiration(unstuck.orbs, marked, vpc, EffectiveTime,
                                    enableOrbDespawning),
                    vpc, windowSize, now, SpawnCondition(EffectiveTime), dt, extraSpawn, d)

\* Phases 8 to 10 in the order of C17 on the outcome of phase 7.
C17_MarkThenExpire(unstuck, extraSpawn, d, dt) ==
    C17_ExpireThenSpawn(unstuck, markInitial(unstuck.grid, unstuck.orbs, vpc),
                        extraSpawn, d, dt)

\* Phases 7 to 10 in the order of C17 on the outcome of phase 6.
C17_UnstickThenMark(moved, sign, extraSpawn, d, dt) ==
    C17_MarkThenExpire(UnstickPhaseFrom([orbs |-> moved.orbs, grid |-> moved.grid],
                                        vpc, sign, 1),
                       extraSpawn, d, dt)

\* Phases 1 to 6 in the order of C17.
C17_MarkThenMove(rnd, dt) ==
    WallPhaseFrom(
        [ orbs |-> PhaseOrbCollision(
                       PhaseOrbAvoidance(
                           PhaseLayerAttraction(
                               PhaseWander(
                                   PhaseSpeedLimit(
                                       PhaseMouseRepulsion(orbs, mousePos, dt,
                                                           disableAvoidance),
                                       dt),
                                   dt),
                               grid.config.layers, dt),
                           vpc, dt, disableAvoidance, rnd.push),
                       vpc, disableCollisions, rnd.normal),
          grid |-> markInitial(grid, orbs, vpc),
          results |-> << >> ],
        vpc, dt, 1)

\* The tick left what phases 7 to 10 leave on the outcome moved of phase 6.
C17_LeftBy(moved, nextOrbs, nextGrid, results, dt) ==
    /\ results = moved.results
    /\ \E sign \in {[x |-> 1, y |-> 1], [x |-> -1, y |-> -1], [x |-> 1, y |-> -1]} :
       \E extraSpawn \in BOOLEAN : \E d \in SpawnDraws(windowSize) :
          [orbs |-> nextOrbs, grid |-> nextGrid]
              = C17_UnstickThenMark(moved, sign, extraSpawn, d, dt)

CentreDistSq(o, x, y, layer) ==
    (x - OrbCellX(o, vpc)) * (x - OrbCellX(o, vpc))
    + (y - OrbCellY(o, vpc)) * (y - OrbCellY(o, vpc))
    + (layer - RoundLayer(o.z)) * (layer - RoundLayer(o.z))

\* A step of deleteOrb: an orb is gone and no frame has run.
OrbDeleted == obs'.op = "none" /\ Len(orbs') = Len(orbs) - 1 /\ grid'.config = grid.config

\* C18 as stated: after deleteOrb has cleared the deleted orb with
\* clearOrbCircular, a filled flag that was set on a cell of the body of an
\* orb still alive, and a proximity flag that was set on a cell of its
\* avoidance shell, is still set; no border flag has changed.
C18_ClearKeepsOthersFlags ==
    [][ OrbDeleted
        => \A x \in 0 .. (grid.config.cellsX - 1), y \in 0 .. (grid.config.cellsY - 1),
              layer \in 0 .. (grid.config.layers - 1) :
              /\ Bit(FlagsAt(grid', x, y, layer), 4) = Bit(FlagsAt(grid, x, y, layer), 4)
              /\ \A k \in 1 .. Len(orbs') :
                    LET distSq == CentreDistSq(orbs'[k], x, y, layer)
                        radius == orbs'[k].size - 1
                        avoidanceRadius == AvoidanceRadius(orbs'[k].size)
                    IN  /\ (distSq <= radius * radius
                            /\ Bit(FlagsAt(grid, x, y, layer), 2) = 1)
                           => Bit(FlagsAt(grid', x, y, layer), 2) = 1
                        /\ (distSq > radius * radius
                            /\ distSq <= avoidanceRadius * avoidanceRadius
                            /\ Bit(FlagsAt(grid, x, y, layer), 1) = 1)
                           => Bit(FlagsAt(grid', x, y, layer), 1) = 1 ]_vars

\* What clearOrbCircular keeps: every border flag, and the whole state of
\* every cell outside the avoidance radius of the deleted orb.
C18_ClearsOwnReachOnly ==
    [][ OrbDeleted
        => \A x \in 0 .. (grid.config.cellsX - 1), y \in 0 .. (grid.config.cellsY - 1),
              layer \in 0 .. (grid.config.layers - 1) :
              /\ Bit(FlagsAt(grid', x, y, layer), 4) = Bit(FlagsAt(grid, x, y, layer), 4)
              /\ \A k \in 1 .. Len(orbs) :
                    ((\A j \in 1 .. Len(orbs') : orbs'[j].id # orbs[k].id)
                     /\ CentreDistSq(orbs[k], x, y, layer)
                        > AvoidanceRadius(orbs[k].size) * AvoidanceRadius(orbs[k].size))
                    => FlagsAt(grid', x, y, layer) = FlagsAt(grid, x, y, layer) ]_vars

\* The motion of an orb holds finite numbers only.
FiniteMotion(m) ==
    /\ isFinite(m.vx)
    /\ isFinite(m.vy)
    /\ isFinite(m.speed)
    /\ isFinite(m.pxX)
    /\ isFinite(m.pxY)

C19_PositionStaysFinite ==
    obs.op = "updatePosition"
        => /\ isFinite(obs.after.pxX)
           /\ isFinite(obs.after.pxY)
           /\ isFinite(obs.after.z)

\* C20: getMaxSpeed is never below minMaxSpeed and does not grow with the
\* size (speeds in 0.1 px/s).
C20_MaxSpeedFloorAndMonotone ==
    obs.op = "getMaxSpeed"
        => /\ obs.maxSpeed >= 10 * obs.minMaxSpeed
           /\ obs.ofNextSize <= obs.maxSpeed
           /\ obs.ofNextSize >= 10 * obs.minMaxSpeed

\* getMaxSpeed was taken for a size where the inverse square root is below
\* minMaxSpeed, so the floor is what is returned.
C20_Witness ==
    /\ obs.op = "getMaxSpeed"
    /\ obs.size > 1
    /\ obs.baseMaxSpeed * obs.baseMaxSpeed < obs.minMaxSpeed * obs.minMaxSpeed * obs.size
    /\ obs.maxSpeed = 10 * obs.minMaxSpeed

\* Does the footprint of orb o hold a wall cell?
OverlapsWall(o, g, vpcv) ==
    FootprintHas(g, OrbCellX(o, vpcv), OrbCellY(o, vpcv), RoundLayer(o.z), o.size - 1,
                 IsBorderState)

\* The sides (-1 low, 1 high) of the grid whose border column / row holds a
\* wall cell of the footprint of o.
WallSidesX(o, g, vpcv) ==
    { s \in {-1, 1} :
        \E dz \in -(o.size - 1) .. (o.size - 1) : \E dy \in -(o.size - 1) .. (o.size - 1) :
        \E dx \in -(o.size - 1) .. (o.size - 1) :
            /\ dx * dx + dy * dy + dz * dz <= (o.size - 1) * (o.size - 1)
            /\ isWall(g, OrbCellX(o, vpcv) + dx, OrbCellY(o, vpcv) + dy, RoundLayer(o.z) + dz)
            /\ OrbCellX(o, vpcv) + dx = (IF s = 1 THEN g.config.cellsX - 1 ELSE 0) }

WallSidesY(o, g, vpcv) ==
    { s \in {-1, 1} :
        \E dz \in -(o.size - 1) .. (o.size - 1) : \E dy \in -(o.size - 1) .. (o.size - 1) :
        \E dx \in -(o.size - 1) .. (o.size - 1) :
            /\ dx * dx + dy * dy + dz * dz <= (o.size - 1) * (o.size - 1)
            /\ isWall(g, OrbCellX(o, vpcv) + dx, OrbCellY(o, vpcv) + dy, RoundLayer(o.z) + dz)
            /\ OrbCellY(o, vpcv) + dy = (IF s = 1 THEN g.config.cellsY - 1 ELSE 0) }

\* A coordinate went from p to q, the velocity on its axis from v to w: not
\* at all, or by 2 cells against v (either way when v = 0), and w does not
\* point to any of the sides where the footprint met the wall.
PushedAgainst(p, q, v, w, cellSizePx, sides) ==
    \/ q = p
    \/ /\ q - p \in { -2 * cellSizePx, 2 * cellSizePx }
       /\ v # 0 => (q - p) * v < 0
       /\ \A s \in sides : w * s <= 0

\* The orb o left by phase 6 and the orb u left by the unstick pass.
UnstuckAsClaimed(o, u, g, vpcv) ==
    OverlapsWall(o, g, vpcv)
        => /\ u.pxX # o.pxX \/ u.pxY # o.pxY \/ u.z # o.z
           /\ PushedAgainst(o.pxX, u.pxX, o.vx, u.vx, vpcv.cellSizeXPx, WallSidesX(o, g, vpcv))
           /\ PushedAgainst(o.pxY, u.pxY, o.vy, u.vy, vpcv.cellSizeYPx, WallSidesY(o, g, vpcv))

\* The single orb as phase 6 of a tick of deltaTime dt leaves it.
MovedOrb(dt) ==
    MoveToWall(orbs, grid, vpc, mousePos, dt, disableCollisions, disableAvoidance,
               CHOOSE rnd \in RndChoices(orbs, vpc, disableCollisions, disableAvoidance) : TRUE
              ).orbs[1]

\* A running tick of the single orb.
SingleOrbTick ==
    /\ obs'.op = "frame"
    /\ obs'.easedProgress >= 1000
    /\ ~pausePhysics
    /\ Len(orbs) = 1
    /\ Len(orbs') = 1

\* C21 (as stated, violated): an orb whose footprint overlaps a wall cell
\* when the unstick pass runs is moved by it, by 2 cells along each axis it
\* is moved on, against its velocity on that axis (either way when that is
\* zero), and its velocity on that axis then points away from the wall it
\* overlapped.
C21_PushedOutAgainstVelocity ==
    [][ SingleOrbTick
        => UnstuckAsClaimed(MovedOrb(obs'.deltaTime), orbs'[1], grid, vpc) ]_vars

\* What the pass does for a size-1 orb whose cell is a wall cell: both
\* pixel axes are pushed by 2 cells against the velocity the orb has after
\* phase 6, whose sign is turned, wherever the wall is.
PushedAgainstOwnVelocity(o, u, g, vpcv) ==
    (o.size = 1 /\ OverlapsWall(o, g, vpcv))
        => /\ Abs(u.pxX - o.pxX) = 2 * vpcv.cellSizeXPx
           /\ Abs(u.pxY - o.pxY) = 2 * vpcv.cellSizeYPx
           /\ (u.pxX - o.pxX) * o.vx <= 0
           /\ (u.pxY - o.pxY) * o.vy <= 0
           /\ u.vx * o.vx <= 0 /\ Abs(u.vx) = Abs(o.vx)
           /\ u.vy * o.vy <= 0 /\ Abs(u.vy) = Abs(o.vy)

C21_SizeOnePushedAgainstOwnVelocity ==
    [][ SingleOrbTick
        => PushedAgainstOwnVelocity(MovedOrb(obs'.deltaTime), orbs'[1], grid, vpc) ]_vars

\* Squared index distance of cell (x, y, layer) from the centre cell of orb
\* o under the viewport metrics vpcv.
DistSqFrom(o, vpcv, x, y, layer) ==
    (x - OrbCellX(o, vpcv)) * (x - OrbCellX(o, vpcv))
    + (y - OrbCellY(o, vpcv)) * (y - OrbCellY(o, vpcv))
    + (layer - RoundLayer(o.z)) * (layer - RoundLayer(o.z))

\* Every filled flag of grid g lies in the body of an orb of orbList and
\* every proximity flag in the avoidance shell of one.
NoStaleOccupancy(g, orbList, vpcv) ==
    \A x \in 0 .. (g.config.cellsX - 1), y \in 0 .. (g.config.cellsY - 1),
       layer \in 0 .. (g.config.layers - 1) :
        /\ hasCellFlag(getCell(g, x, y, layer), CELL_FILLED)
           => \E k \in 1 .. Len(orbList) :
                 DistSqFrom(orbList[k], vpcv, x, y, layer)
                     <= (orbList[k].size - 1) * (orbList[k].size - 1)
        /\ hasCellFlag(getCell(g, x, y, layer), CELL_PROXIMITY)
           => \E k \in 1 .. Len(orbList) :
                 /\ DistSqFrom(orbList[k], vpcv, x, y, layer)
                        > (orbList[k].size - 1) * (orbList[k].size - 1)
                 /\ DistSqFrom(orbList[k], vpcv, x, y, layer)
                        <= AvoidanceRadius(orbList[k].size) * AvoidanceRadius(orbList[k].size)

\* C22: after every animation frame, running, paused or revealing, and
\* after every step that changes the orbs or the grid (manual create and
\* delete among them), every filled flag lies in the body of a live orb at
\* its current position and every proximity flag in the avoidance shell of
\* a live orb.
C22_NoStaleOccupancy ==
    [][ (obs'.op = "frame" \/ orbs' # orbs \/ grid' # grid)
        => NoStaleOccupancy(grid', orbs', vpc') ]_vars

\* A running tick that took time has ended with a moving orb alive whose
\* centre cell carries the filled flag.
C22_Witness ==
    /\ obs.op = "frame"
    /\ obs.easedProgress >= 1000
    /\ obs.deltaTime > 0
    /\ ~pausePhysics
    /\ Len(orbs) > 0
    /\ \E k \in 1 .. Len(orbs) :
          /\ orbs[k].vx # 0
          /\ hasCellFlag(getCell(grid, OrbCellX(orbs[k], vpc), OrbCellY(orbs[k], vpc),
                                 RoundLayer(orbs[k].z)), CELL_FILLED)

\* A step of the burst or a tick: the steps in which spawnOrbBurst and
\* spawnRandomOrbs add orbs.
SpawningStep == obs'.op = "frame" \/ (~hasBurst /\ hasBurst')

\* C23 (as stated, violated): the layer at which the burst or the continuous
\* spawner has just placed an orb is the preferred layer the layer
\* attraction phase computes for it.
C23_SpawnedAtAttractionLayer ==
    [][ SpawningStep
        => \A k \in NewOrbs(orbs, orbs') :
              orbs'[k].z = getPreferredLayer(orbs'[k].size, SpawnMaxSize,
                                             grid'.config.layers) ]_vars

\* The layer of a freshly spawned orb is the preferred layer of its size for
\* the largest size of the burst configuration; it is the layer the
\* attraction phase pulls to only for size 1 (layer 0 for any largest size).
C23_SpawnedAtBurstLayer ==
    [][ SpawningStep
        => \A k \in NewOrbs(orbs, orbs') :
              /\ orbs'[k].z = getPreferredLayer(orbs'[k].size, BurstMaxSize,
                                                grid'.config.layers)
              /\ orbs'[k].size = 1
                 => orbs'[k].z = getPreferredLayer(orbs'[k].size, SpawnMaxSize,
                                                   grid'.config.layers) ]_vars

\* The stored speed is the magnitude of (vx, vy), to the rounding of the
\* velocity components (1 px/s each).
SpeedInSync(o) ==
    /\ (o.speed + 2) * (o.speed + 2) >= o.vx * o.vx + o.vy * o.vy
    /\ o.speed <= 2 \/ (o.speed - 2) * (o.speed - 2) <= o.vx * o.vx + o.vy * o.vy

\* The stored angle is atan2(vy, vx): it was taken of (vx, vy), or of a
\* vector of the same direction to the rounding of the components.
AngleInSync(o) ==
    \/ o.angle = Atan2(o.vy, o.vx)
    \/ /\ o.angle.x * o.vx + o.angle.y * o.vy > 0
       /\ Abs(o.angle.x * o.vy - o.angle.y * o.vx) <= Abs(o.angle.x) + Abs(o.angle.y)

\* C24 (as stated, violated): whenever an orb exists, at its creation and
\* at the end of every tick, its stored speed is the magnitude of (vx, vy)
\* and its stored angle is atan2(vy, vx).
C24_SpeedAndAngleInSync ==
    \A k \in 1 .. Len(orbs) : SpeedInSync(orbs[k]) /\ AngleInSync(orbs[k])

\* The angle is kept in sync.
C24_AngleInSync == \A k \in 1 .. Len(orbs) : AngleInSync(orbs[k])

\* The centre cell of orb o is inside the grid / inside and off the border
\* ring.
CentreInBounds(o, g, vpcv) ==
    isInBounds(g, OrbCellX(o, vpcv), OrbCellY(o, vpcv), RoundLayer(o.z))

CentreInInterior(o, g, vpcv) ==
    /\ CentreInBounds(o, g, vpcv)
    /\ ~isWall(g, OrbCellX(o, vpcv), OrbCellY(o, vpcv), RoundLayer(o.z))

\* C25 (as stated, violated): an orb whose centre cell is in the interior
\* of the grid (in bounds, no border flag) when a running tick starts, and
\* which is alive after it, has its centre cell within the bounds of the
\* grid when the tick ends.
C25_InteriorStaysInBounds ==
    [][ (obs'.op = "frame" /\ obs'.easedProgress >= 1000 /\ ~pausePhysics)
        => \A k \in 1 .. Len(orbs) : \A j \in 1 .. Len(orbs') :
              (orbs'[j].id = orbs[k].id /\ orbs'[j].createdAt = orbs[k].createdAt
               /\ CentreInInterior(orbs[k], grid, vpc))
              => CentreInBounds(orbs'[j], grid', vpc') ]_vars

\* Age that expiration computes for orb o at effective time t.
AgeAt(o, t) == t - o.createdAt

\* C26 (as stated, violated): every orb of finite lifetime that a step
\* creates has, right after the step, an age on the expiration clock
\* (effective time minus createdAt) of at least 0 minus the largest spawn
\* delay, whatever time was spent paused before.
C26_CreatedOnExpirationClock ==
    [][ \A k \in NewOrbs(orbs, orbs') :
           orbs'[k].lifetimeMs # INFINITE_LIFETIME
           => AgeAt(orbs'[k], EffectiveTime') >= 0 - SpawnDelayMaxMs ]_vars

\* C27 (as stated, violated): the number of orbs the continuous-spawn phase
\* of runPhysics requests from spawnRandomOrbs is at most the deficit, the
\* target count minus the live count at the start of the phase, for every
\* frame time.
C27_RequestedWithinDeficit ==
    (obs.op = "spawnsThisFrame" /\ obs.impl = "runPhysics")
    => obs.requested <= Max(0, obs.targetCount - obs.currentCount)

\* C27 (holds): for frame times of at most 12 s, the reciprocal of
\* baseSpawnRateAt4K / targetOrbCountAt4K, the request is within the deficit.
C27_WithinDeficitUpToTwelveSeconds ==
    (obs.op = "spawnsThisFrame" /\ obs.impl = "runPhysics"
     /\ obs.deltaTime * BaseSpawnRateAt4K <= 10 * TargetOrbCountAt4K)
    => obs.requested <= Max(0, obs.targetCount - obs.currentCount)

\* C28 (as stated, violated): once the reveal has completed it stays
\* completed, window resizes included, and every animation frame delivered
\* from then on hands the frame callback the progress 1.
C28_ProgressStaysOne ==
    [][ hasAnimated
        => /\ hasAnimated'
           /\ obs'.op = "frame" => obs'.easedProgress = 1000 ]_vars

\* C29: over every sequence of frames, clock ticks and pause or resume
\* notifications from the debug-context effect and from debugOptionChanged
\* events, repeated ones included, the effective time never decreases, the
\* accumulated paused time never decreases, and the pause start is recorded
\* (non-null) exactly while the pause flag is set.
C29_PauseClockConsistent ==
    /\ []((pausedAtTime # NULL) <=> pausePhysics)
    /\ [][ /\ EffectiveTime' >= EffectiveTime
           /\ pausedTimeOffset' >= pausedTimeOffset ]_vars

\* A debugOptionChanged event repeats the pause notification some time
\* after physics was paused for the second time: the pause start is still
\* that of the second pause and the first paused interval is accumulated.
C29_Witness ==
    /\ obs.op = "debugOptionChanged"
    /\ obs.key = "pausePhysics"
    /\ obs.value
    /\ obs.wasPaused
    /\ pausePhysics
    /\ pausedTimeOffset > 0
    /\ pausedAtTime # NULL
    /\ pausedAtTime < now

\* C30 (as stated, violated): for every pixel coordinate, negative ones
\* included, the cell index used for orb marking, spawn validation and wall
\* checks equals the cell index of the pointer-to-cell mapping.
C30_SameCellAsPointer ==
    obs.op = "cellIndex" => obs.orbCell = obs.pointerCell

\* C30 (holds): the two cell indices agree for every coordinate that is not
\* negative or is a multiple of the cell size; for the others the orb's
\* index is one more than the pointer's.
C30_SameCellRightOfOrigin ==
    obs.op = "cellIndex"
    => IF obs.p >= 0 \/ obs.p % obs.cellSizePx = 0
       THEN obs.orbCell = obs.pointerCell
       ELSE obs.orbCell = obs.pointerCell + 1

====
